---- MODULE Spec2Model ----
(***************************************************************************)
(* gh-pages-deploy: build detection (BuildDetector), base-path patching    *)
(* and restoring (BuildConfigurer + ConfigParser) and the build step of    *)
(* GitHubPagesDeployer.                                                    *)
(*                                                                         *)
(* Text is modelled structurally.  A path or a quoted value is the         *)
(* sequence of its '/'-separated segments ("/abs/out" is <<"","abs","out">>*)
(* and the empty string is <<>>).  A file's text is a record               *)
(*   [shape |-> how the module exports its object, entries |-> <<..>>]     *)
(* whose entries are the key/value pairs of the text in textual order      *)
(* (key: 'value' in a config module, KEY=value in an env file, one word of *)
(* a script), so that the regular expressions of the source become scans   *)
(* over the entries.                                                       *)
(***************************************************************************)
EXTENDS Integers, Sequences, FiniteSets, TLC

VARIABLES
  fs,              \* project root: file name -> text, for the files that exist
  dirs,            \* candidate output directories that exist under the root
  unreadable,      \* files whose read throws (permissions)
  pkg,             \* the parsed package.json
  pc,              \* position of the run
  buildConfig,     \* the BuildProfile held by the deployer
  originalConfigs, \* the PatchRecords of the BuildConfigurer
  repository,      \* configManager.config.repository, the name of the previews repo
  outputMade,      \* the build command has produced the output directory
  log,             \* the calls made so far, each with the state it started from
  env,             \* process.env of the tool's process
  originalEnv,     \* the snapshot held by the environment-based BuildConfigurer
  branches,        \* names of the branches of the deployment repository
  now,             \* the wall clock
  cleanups,        \* number of cleanupOldBranches calls made
  lastCleanup,     \* the last cleanupOldBranches call: what it saw and did
  console,         \* the methods installed as console.log/error/warn/info
  originalConsole, \* ProgressUtil.originalConsole: the methods it holds, or null
  interval,        \* ProgressUtil.interval is set: the spinner timer runs
  debugMode,       \* --debug
  restoreFn,       \* the function the last silentConsole call returned
  lastStep,        \* the last ProgressUtil.step call: what it met and did
  trace,           \* the calls made on the ProgressUtil by its user
  stage,           \* position of deploy()
  gh,              \* the GitHub CLI: installed or not, and where it is logged in
  deployConfig,    \* configManager.config
  gitDeployer,     \* deploy() holds a GitDeployer
  tempDir,         \* GitDeployer.tempDir and the directory it names
  effects,         \* the steps deploy() has run, in order, each with its outcome
  error,           \* the error deploy() caught
  inStep           \* the step() call that is waiting for its function to end

cleanupVars == <<branches, now, cleanups, lastCleanup>>

progressVars == <<console, originalConsole, interval, debugMode, restoreFn, lastStep, trace>>

runVars == <<stage, gh, deployConfig, gitDeployer, tempDir, effects, error, inStep>>

vars == <<fs, dirs, unreadable, pkg, pc, buildConfig, originalConfigs, repository,
          outputMade, log, env, originalEnv, cleanupVars, progressVars, runVars>>

----------------------------------------------------------------------------
(* Bounds of the model *)

MaxFiles == 2        \* files in the project root when detection runs
MaxPatchFiles == 1   \* files in the project root when a BuildConfigurer is driven
MaxSteps == 4        \* calls on one BuildConfigurer plus edits made by others

----------------------------------------------------------------------------
(* Values *)

Undefined == "undefined"
NoProfile == [framework |-> "none"]

E(k, v) == [k |-> k, v |-> v]
T(shape, entries) == [shape |-> shape, entries |-> entries]

EmptyText == T("empty", <<>>)

\* path.isAbsolute on a segment sequence
IsAbsolute(p) == Len(p) >= 2 /\ p[1] = ""

\* depth reached by walking the segments from the project root; -1 once the
\* walk has left the root
RECURSIVE Walk(_, _)
Walk(p, depth) ==
  IF p = <<>> THEN depth
  ELSE IF Head(p) = ".." THEN (IF depth = 0 THEN 0 - 1 ELSE Walk(Tail(p), depth - 1))
  ELSE IF Head(p) \in {"", "."} THEN Walk(Tail(p), depth)
  ELSE Walk(Tail(p), depth + 1)

EscapesRoot(p) == Walk(p, 0) < 0

----------------------------------------------------------------------------
(* File names *)

NextConfigFiles == <<"next.config.js", "next.config.ts", "next.config.mjs">>
ViteDetectFiles == <<"vite.config.js", "vite.config.ts", "vitest.config.js", "vitest.config.ts">>
ReactEnvFiles   == <<".env", ".env.local", ".env.production", ".env.production.local">>
commonDirs      == <<"dist", "build", "public", "out", "_site", "docs">>

Range(s) == {s[i] : i \in 1..Len(s)}

Files == Range(NextConfigFiles) \cup Range(ViteDetectFiles) \cup Range(ReactEnvFiles)
           \cup {"tsconfig.json"}

----------------------------------------------------------------------------
(* fs primitives *)

existsSync(F, f) == f \in DOMAIN F

\* readFileSync throws for a missing or unreadable file
CanRead(F, U, f) == f \in DOMAIN F /\ f \notin U

\* Array.prototype.find over a list of names: the first that exists
RECURSIVE find(_, _)
find(names, F) ==
  IF names = <<>> THEN Undefined
  ELSE IF existsSync(F, Head(names)) THEN Head(names)
  ELSE find(Tail(names), F)

----------------------------------------------------------------------------
(* Regular expressions of BuildDetector as scans over entries *)

\* key\s*:\s*['"`]([^'"`]+)['"`]  -- index of the first entry of that key with
\* a non-empty value, 0 when there is no match
RECURSIVE MatchFrom(_, _, _)
MatchFrom(es, keys, i) ==
  IF i > Len(es) THEN 0
  ELSE IF es[i].k \in keys /\ es[i].v # <<>> THEN i
  ELSE MatchFrom(es, keys, i + 1)

Match(es, keys) == MatchFrom(es, keys, 1)

\* output\s*:\s*['"`]export['"`]
HasExportMarker(es) == \E i \in 1..Len(es) : es[i].k = "output" /\ es[i].v = <<"export">>

\* String.prototype.includes(dir) on one word of a script: the candidate
\* directory names that occur as substrings of the words of the vocabulary
DirsIn(w) ==
  CASE w = "build"       -> {"build"}
    [] w = "dist"        -> {"dist"}
    [] w = "public"      -> {"public"}
    [] w = "out"         -> {"out"}
    [] w = "custom-out"  -> {"out"}
    [] w = "--outDir"    -> {"out"}
    [] w = "docs"        -> {"docs"}
    [] w = "_site"       -> {"_site"}
    [] OTHER             -> {}

WordIncludes(e, dir) == dir \in DirsIn(e.k) \/ \E j \in 1..Len(e.v) : dir \in DirsIn(e.v[j])

includes(script, dir) == \E i \in 1..Len(script) : WordIncludes(script[i], dir)

\* a || b on strings
OrElse(v, d) == IF v = <<>> THEN d ELSE v

----------------------------------------------------------------------------
(* BuildDetector *)

RECURSIVE FirstMentioned(_, _)
FirstMentioned(script, ds) ==
  IF ds = <<>> THEN Undefined
  ELSE IF includes(script, Head(ds)) THEN Head(ds)
  ELSE FirstMentioned(script, Tail(ds))

RECURSIVE FirstExisting(_, _)
FirstExisting(D, ds) ==
  IF ds = <<>> THEN Undefined
  ELSE IF Head(ds) \in D THEN Head(ds)
  ELSE FirstExisting(D, Tail(ds))

GenericProfile(dir) ==
  [framework |-> "generic", buildCommand |-> "npm run build", outputDir |-> <<dir>>]

\* variant: an existing directory is preferred to a mention in the script
findGenericConfig_ExistingFirst(D, P) ==
  LET m == IF P.build # <<>> THEN FirstMentioned(P.build, commonDirs) ELSE Undefined
      x == FirstExisting(D, commonDirs)
  IN  IF x # Undefined THEN GenericProfile(x)
      ELSE IF m # Undefined THEN GenericProfile(m)
      ELSE GenericProfile("dist")

findGenericConfig(D, P) ==
  LET m == IF P.build # <<>> THEN FirstMentioned(P.build, commonDirs) ELSE Undefined
      x == FirstExisting(D, commonDirs)
  IN  IF m # Undefined THEN GenericProfile(m)
      ELSE IF x # Undefined THEN GenericProfile(x)
      ELSE GenericProfile("dist")

\* variant: the static-export default where no marker is found
parseNextConfig_DefaultOut(F, U, configFile) ==
  IF ~CanRead(F, U, configFile) THEN <<"out">>
  ELSE LET es == F[configFile].entries
           d  == Match(es, {"distDir"})
           o  == Match(es, {"outDir"})
       IN  IF d # 0 THEN es[d].v
           ELSE IF HasExportMarker(es) THEN (IF o # 0 THEN es[o].v ELSE <<"out">>)
           ELSE <<"out">>

\* variant: the static-export marker is looked for before distDir
parseNextConfig_ExportFirst(F, U, configFile) ==
  IF ~CanRead(F, U, configFile) THEN <<"out">>
  ELSE LET es == F[configFile].entries
           d  == Match(es, {"distDir"})
           o  == Match(es, {"outDir"})
       IN  IF HasExportMarker(es) THEN (IF o # 0 THEN es[o].v ELSE <<"out">>)
           ELSE IF d # 0 THEN es[d].v
           ELSE <<".next">>

parseNextConfig(F, U, configFile) ==
  IF ~CanRead(F, U, configFile) THEN <<"out">>
  ELSE LET es == F[configFile].entries
           d  == Match(es, {"distDir"})
           o  == Match(es, {"outDir"})
       IN  IF d # 0 THEN es[d].v
           ELSE IF HasExportMarker(es) THEN (IF o # 0 THEN es[o].v ELSE <<"out">>)
           ELSE <<".next">>

\* variant: requiresExport computed from the static-export marker
findNextConfig_MarkerExport(F, U) ==
  LET configFile == find(NextConfigFiles, F)
  IN  IF configFile # Undefined
      THEN [framework |-> "next", buildCommand |-> "npm run build",
            outputDir |-> OrElse(parseNextConfig(F, U, configFile), <<"out">>),
            requiresExport |-> (CanRead(F, U, configFile)
                                /\ HasExportMarker(F[configFile].entries)),
            configFile |-> configFile]
      ELSE NoProfile

findNextConfig(F, U) ==
  LET configFile == find(NextConfigFiles, F)
  IN  IF configFile # Undefined
      THEN [framework |-> "next", buildCommand |-> "npm run build",
            outputDir |-> OrElse(parseNextConfig(F, U, configFile), <<"out">>),
            requiresExport |-> TRUE, configFile |-> configFile]
      ELSE NoProfile

\* build\s*:\s*{[^}]*outDir... first, then a bare outDir...; an outDir nested
\* in the build section is the entry "build.outDir"
parseViteConfig(F, U, configFile) ==
  IF ~CanRead(F, U, configFile) THEN <<"dist">>
  ELSE LET es == F[configFile].entries
           b  == Match(es, {"build.outDir"})
           o  == Match(es, {"outDir", "build.outDir"})
       IN  IF b # 0 THEN es[b].v
           ELSE IF o # 0 THEN es[o].v
           ELSE <<"dist">>

\* variant: the build command names the tool instead of the npm script
findViteConfig_ViteBuild(F, U, P) ==
  LET configFile == find(ViteDetectFiles, F)
  IN  IF configFile # Undefined \/ P.devVite
      THEN [framework |-> "vite", buildCommand |-> "vite build",
            outputDir |-> OrElse(IF configFile # Undefined
                                 THEN parseViteConfig(F, U, configFile)
                                 ELSE <<"dist">>, <<"dist">>),
            configFile |-> configFile]
      ELSE NoProfile

findViteConfig(F, U, P) ==
  LET configFile == find(ViteDetectFiles, F)
  IN  IF configFile # Undefined \/ P.devVite
      THEN [framework |-> "vite", buildCommand |-> "npm run build",
            outputDir |-> OrElse(IF configFile # Undefined
                                 THEN parseViteConfig(F, U, configFile)
                                 ELSE <<"dist">>, <<"dist">>),
            configFile |-> configFile]
      ELSE NoProfile

\* the first env file, in order, that exists and holds BUILD_PATH=<non-blank>;
\* a read that throws is caught by the enclosing try and yields 'build'
RECURSIVE ScanEnvFiles(_, _, _)
ScanEnvFiles(F, U, names) ==
  IF names = <<>> THEN <<"build">>
  ELSE IF ~existsSync(F, Head(names)) THEN ScanEnvFiles(F, U, Tail(names))
  ELSE IF ~CanRead(F, U, Head(names)) THEN <<"build">>
  ELSE LET es == F[Head(names)].entries
           m  == Match(es, {"BUILD_PATH"})
       IN  IF m # 0 THEN es[m].v ELSE ScanEnvFiles(F, U, Tail(names))

\* variant: the env files are scanned from the last name to the first
parseReactConfig_LastEnvFirst(F, U, P) ==
  LET m == IF P.build # <<>> THEN Match(P.build, {"BUILD_PATH"}) ELSE 0
  IN  IF m # 0 THEN P.build[m].v
      ELSE ScanEnvFiles(F, U, <<".env.production.local", ".env.production", ".env.local", ".env">>)

parseReactConfig(F, U, P) ==
  LET m == IF P.build # <<>> THEN Match(P.build, {"BUILD_PATH"}) ELSE 0
  IN  IF m # 0 THEN P.build[m].v ELSE ScanEnvFiles(F, U, ReactEnvFiles)

findReactConfig(F, U, P) ==
  IF P.reactScripts
  THEN [framework |-> "react", buildCommand |-> "npm run build",
        outputDir |-> OrElse(parseReactConfig(F, U, P), <<"build">>)]
  ELSE NoProfile

\* variant: Vite tested before Next
detectBuildConfig_ViteFirst(F, D, U, P) ==
  LET configs == [next    |-> findNextConfig(F, U),
                  vite    |-> findViteConfig(F, U, P),
                  react   |-> findReactConfig(F, U, P),
                  generic |-> findGenericConfig(D, P)]
  IN  IF configs.vite # NoProfile THEN configs.vite
      ELSE IF configs.next # NoProfile THEN configs.next
      ELSE IF configs.react # NoProfile THEN configs.react
      ELSE configs.generic

detectBuildConfig(F, D, U, P) ==
  LET configs == [next    |-> findNextConfig(F, U),
                  vite    |-> findViteConfig(F, U, P),
                  react   |-> findReactConfig(F, U, P),
                  generic |-> findGenericConfig(D, P)]
  IN  IF configs.next # NoProfile THEN configs.next
      ELSE IF configs.vite # NoProfile THEN configs.vite
      ELSE IF configs.react # NoProfile THEN configs.react
      ELSE configs.generic

----------------------------------------------------------------------------
(* ConfigParser *)

Null == T("null", <<>>)            \* JS null: "no original content"

\* truthiness of a string: '' and null are falsy
Truthy(text) == text # Null /\ text # EmptyText

HasKey(es, k) == \E i \in 1..Len(es) : es[i].k = k

FirstKey(es, k) == CHOOSE i \in 1..Len(es) : es[i].k = k /\ \A j \in 1..(i - 1) : es[j].k # k

\* obj[k] = v on an insertion-ordered object
Assign(es, k, v) ==
  IF HasKey(es, k) THEN [es EXCEPT ![FirstKey(es, k)].v = v] ELSE Append(es, E(k, v))

\* the object an object literal evaluates to: a repeated key keeps its first
\* position and its last value
RECURSIVE ObjectFrom(_, _)
ObjectFrom(es, acc) ==
  IF es = <<>> THEN acc ELSE ObjectFrom(Tail(es), Assign(acc, Head(es).k, Head(es).v))

ObjectOf(es) == ObjectFrom(es, <<>>)

\* text.replace(/key:\s*['"`][^'"`]*['"`]/g, "key: '<v>'")
ReplaceAll(es, k, v) == [i \in 1..Len(es) |-> IF es[i].k = k THEN E(k, v) ELSE es[i]]

createDefaultNextConfig(basePath) ==
  << E("output", <<"export">>), E("basePath", basePath), E("assetPrefix", basePath),
     E("trailingSlash", <<"true">>), E("images.unoptimized", <<"true">>) >>

mergeNextConfigObject(config, basePath) ==
  Assign(Assign(Assign(Assign(Assign(config,
    "output", <<"export">>),
    "basePath", basePath),
    "assetPrefix", basePath),
    "trailingSlash", <<"true">>),
    "images.unoptimized", <<"true">>)

generateNextConfigContent(config) == T("cjs", config)

fallbackNextConfig(originalContent, basePath) ==
  IF HasKey(originalContent.entries, "basePath")
  THEN T(originalContent.shape, ReplaceAll(originalContent.entries, "basePath", basePath))
  ELSE T(originalContent.shape,
         originalContent.entries \o
           << E("basePath", basePath), E("assetPrefix", basePath),
              E("output", <<"export">>), E("trailingSlash", <<"true">>),
              E("images.unoptimized", <<"true">>) >>)

\* "cjs": module.exports = {..}; "esm": export default {..}; "function":
\* module.exports = () => ({..}) -- these evaluate in the sandbox.  Any other
\* text (imports, calls of unknown helpers) throws there and takes the fallback.
modifyNextConfig(originalContent, basePath) ==
  IF originalContent.shape \in {"cjs", "esm", "function"}
  THEN generateNextConfigContent(
         mergeNextConfigObject(ObjectOf(originalContent.entries), basePath))
  ELSE fallbackNextConfig(originalContent, basePath)

generateNextConfig(basePath, originalContent) ==
  IF Truthy(originalContent)
  THEN modifyNextConfig(originalContent, basePath)
  ELSE T("cjs", createDefaultNextConfig(basePath))

ImportDefineConfig == E("import defineConfig", <<"vite">>)

\* the first field of the exported object literal comes after the import line
InsertAfterImport(es, e) ==
  IF es # <<>> /\ Head(es) = ImportDefineConfig
  THEN <<Head(es), e>> \o Tail(es)
  ELSE <<e>> \o es

\* "defineConfig": export default defineConfig({..}); "esm": export default {..}
modifyViteConfig(originalContent, basePath, isTypeScript) ==
  LET es0 == originalContent.entries
      hasDefine == originalContent.shape = "defineConfig" \/ HasKey(es0, ImportDefineConfig.k)
      es == IF hasDefine THEN es0 ELSE <<ImportDefineConfig>> \o es0
  IN  IF HasKey(es, "base")
      THEN T(originalContent.shape, ReplaceAll(es, "base", basePath))
      ELSE IF originalContent.shape \in {"defineConfig", "esm"}
      THEN T("defineConfig", InsertAfterImport(es, E("base", basePath)))
      ELSE T(originalContent.shape, es)

generateViteConfig(basePath, isTypeScript, originalContent) ==
  IF Truthy(originalContent)
  THEN modifyViteConfig(originalContent, basePath, isTypeScript)
  ELSE T("defineConfig",
         <<ImportDefineConfig, E("base", basePath), E("build.outDir", <<"dist">>)>>)

\* the names of the vocabulary that 'PUBLIC_URL=' is a substring of, once
\* followed by '='
ContainsPublicUrl(k) == k \in {"PUBLIC_URL", "REACT_APP_PUBLIC_URL"}

\* index of the first line that includes 'PUBLIC_URL=', 0 if there is none
RECURSIVE FirstPublicUrl(_, _)
FirstPublicUrl(es, i) ==
  IF i > Len(es) THEN 0
  ELSE IF ContainsPublicUrl(es[i].k) THEN i
  ELSE FirstPublicUrl(es, i + 1)

\* replace(/PUBLIC_URL=.*$/m, ..) is unanchored and not global: it rewrites
\* the rest of the first line that includes 'PUBLIC_URL=', whatever precedes
\* it on that line, and no other line
generateReactEnvConfig(basePath, originalContent) ==
  LET es == originalContent.entries
      m  == FirstPublicUrl(es, 1)
  IN  IF m # 0
      THEN T(originalContent.shape, [es EXCEPT ![m].v = basePath])
      ELSE T("env", es \o <<E("PUBLIC_URL", basePath)>>)

----------------------------------------------------------------------------
(* fs writes.  A write either succeeds, or throws before touching the file   *)
(* (EACCES on open), or throws after the file was created/truncated (ENOSPC) *)

WriteModes == {"ok", "eacces", "enospc"}

writeFileSync(F, f, text, w) ==
  CASE w = "ok"     -> (f :> text) @@ F
    [] w = "enospc" -> (f :> EmptyText) @@ F
    [] OTHER        -> F

unlinkSync(F, f, w) ==
  IF w = "ok" THEN [x \in (DOMAIN F) \ {f} |-> F[x]] ELSE F

----------------------------------------------------------------------------
(* BuildConfigurer (file-patching variant).  originalConfigs is the          *)
(* insertion-ordered object {file: original text | null}, kept as a sequence *)
(* of [file, orig].  Each operation yields the file system and records it    *)
(* leaves behind and whether it threw.                                       *)

Rec(f, orig) == [file |-> f, orig |-> orig]

HasRecord(O, f) == \E i \in 1..Len(O) : O[i].file = f

\* this.originalConfigs[f] = orig
SetRecord(O, f, orig) ==
  IF HasRecord(O, f)
  THEN [i \in 1..Len(O) |-> IF O[i].file = f THEN Rec(f, orig) ELSE O[i]]
  ELSE Append(O, Rec(f, orig))

Outcome(F, O, threw) == [fs |-> F, oc |-> O, threw |-> threw]

ViteConfigFiles == <<"vite.config.js", "vite.config.ts">>

\* variant: the record is taken from the file after the write
configureNextJsBasePath_RecordAfterWrite(F, U, O, basePath, w) ==
  LET configFile == find(NextConfigFiles, F)
  IN  IF configFile # Undefined
      THEN IF ~CanRead(F, U, configFile) THEN Outcome(F, O, TRUE)
           ELSE LET F1 == writeFileSync(F, configFile,
                                        generateNextConfig(basePath, F[configFile]), w)
                IN  Outcome(F1, SetRecord(O, configFile, F1[configFile]), w # "ok")
      ELSE LET F1 == writeFileSync(F, "next.config.js", generateNextConfig(basePath, Null), w)
           IN  IF w # "ok" THEN Outcome(F1, O, TRUE)
               ELSE Outcome(F1, SetRecord(O, "next.config.js", Null), FALSE)

configureNextJsBasePath(F, U, O, basePath, w) ==
  LET configFile == find(NextConfigFiles, F)
  IN  IF configFile # Undefined
      THEN IF ~CanRead(F, U, configFile) THEN Outcome(F, O, TRUE)
           ELSE Outcome(writeFileSync(F, configFile,
                                      generateNextConfig(basePath, F[configFile]), w),
                        SetRecord(O, configFile, F[configFile]),
                        w # "ok")
      ELSE LET F1 == writeFileSync(F, "next.config.js", generateNextConfig(basePath, Null), w)
           IN  IF w # "ok" THEN Outcome(F1, O, TRUE)
               ELSE Outcome(F1, SetRecord(O, "next.config.js", Null), FALSE)

configureViteBasePath(F, U, O, basePath, w) ==
  LET configFile == find(ViteConfigFiles, F)
  IN  IF configFile # Undefined
      THEN IF ~CanRead(F, U, configFile) THEN Outcome(F, O, TRUE)
           ELSE Outcome(writeFileSync(F, configFile,
                                      generateViteConfig(basePath, configFile = "vite.config.ts",
                                                         F[configFile]), w),
                        SetRecord(O, configFile, F[configFile]),
                        w # "ok")
      ELSE LET isTypeScript == existsSync(F, "tsconfig.json")
               newFile == IF isTypeScript THEN "vite.config.ts" ELSE "vite.config.js"
               F1 == writeFileSync(F, newFile, generateViteConfig(basePath, isTypeScript, Null), w)
           IN  IF w # "ok" THEN Outcome(F1, O, TRUE)
               ELSE Outcome(F1, SetRecord(O, newFile, Null), FALSE)

\* variant: a created .env.local is recorded with the empty text
configureReactBasePath_RecordEmpty(F, U, O, basePath, w) ==
  IF existsSync(F, ".env.local")
  THEN IF ~CanRead(F, U, ".env.local") THEN Outcome(F, O, TRUE)
       ELSE Outcome(writeFileSync(F, ".env.local",
                                  generateReactEnvConfig(basePath, F[".env.local"]), w),
                    SetRecord(O, ".env.local", F[".env.local"]),
                    w # "ok")
  ELSE Outcome(writeFileSync(F, ".env.local", generateReactEnvConfig(basePath, EmptyText), w),
               SetRecord(O, ".env.local", EmptyText),
               w # "ok")

configureReactBasePath(F, U, O, basePath, w) ==
  IF existsSync(F, ".env.local")
  THEN IF ~CanRead(F, U, ".env.local") THEN Outcome(F, O, TRUE)
       ELSE Outcome(writeFileSync(F, ".env.local",
                                  generateReactEnvConfig(basePath, F[".env.local"]), w),
                    SetRecord(O, ".env.local", F[".env.local"]),
                    w # "ok")
  ELSE Outcome(writeFileSync(F, ".env.local", generateReactEnvConfig(basePath, EmptyText), w),
               SetRecord(O, ".env.local", Null),
               w # "ok")

configureBasePath(framework, F, U, O, basePath, w) ==
  CASE framework = "next"  -> configureNextJsBasePath(F, U, O, basePath, w)
    [] framework = "vite"  -> configureViteBasePath(F, U, O, basePath, w)
    [] framework = "react" -> configureReactBasePath(F, U, O, basePath, w)
    [] OTHER               -> Outcome(F, O, FALSE)

\* whether restoring record r performs a file operation that can throw
RestoreTouches(F, r) == r.orig # Null \/ existsSync(F, r.file)

\* variant: a file created by configure is left in place
RestoreOne_KeepCreated(F, r, w) ==
  IF r.orig = Null THEN F ELSE writeFileSync(F, r.file, r.orig, w)

\* one iteration of the loop of restoreOriginalConfig
RestoreOne(F, r, w) ==
  IF r.orig = Null
  THEN (IF existsSync(F, r.file) THEN unlinkSync(F, r.file, w) ELSE F)
  ELSE writeFileSync(F, r.file, r.orig, w)

\* the loop from record i on; the file operation of record failAt (0: none)
\* throws in mode w.  Yields the file system and the number of records whose
\* restoration was attempted.
RECURSIVE RestoreLoop(_, _, _, _, _)
RestoreLoop(F, O, i, failAt, w) ==
  IF i > Len(O) THEN [fs |-> F, attempted |-> Len(O), threw |-> FALSE]
  ELSE IF i = failAt THEN [fs |-> RestoreOne(F, O[i], w), attempted |-> i, threw |-> TRUE]
  ELSE RestoreLoop(RestoreOne(F, O[i], "ok"), O, i + 1, failAt, w)

\* variant: the records are not cleared at the end
restoreOriginalConfig_KeepRecords(F, O, failAt, w) ==
  LET r == RestoreLoop(F, O, 1, failAt, w)
  IN  [fs |-> r.fs, oc |-> O, threw |-> r.threw, attempted |-> r.attempted]

restoreOriginalConfig(F, O, failAt, w) ==
  LET r == RestoreLoop(F, O, 1, failAt, w)
  IN  [fs |-> r.fs, oc |-> IF r.threw THEN O ELSE <<>>,
       threw |-> r.threw, attempted |-> r.attempted]

----------------------------------------------------------------------------
(* Inputs *)

NextTexts ==
  { EmptyText,
    T("cjs", <<E("reactStrictMode", <<"true">>)>>),
    T("cjs", <<E("distDir", <<"custom-out">>), E("output", <<"export">>)>>),
    T("cjs", <<E("output", <<"export">>)>>),
    T("esm", <<E("output", <<"export">>), E("outDir", <<"", "abs", "out">>)>>),
    T("complex", <<E("distDir", <<>>), E("distDir", <<"..", "up">>)>>),
    T("complex", <<E("basePath", <<"", "old">>), E("reactStrictMode", <<"true">>)>>) }

ViteTexts ==
  { T("defineConfig", <<E("plugins", <<"[]">>)>>),
    T("cjs", <<E("plugins", <<"[]">>)>>),
    T("esm", <<E("outDir", <<"top">>), E("build.outDir", <<"..", "up">>)>>),
    T("cjs", <<E("base", <<"", "old">>), E("build.outDir", <<>>)>>) }

EnvTexts ==
  { EmptyText,
    T("env", <<E("PUBLIC_URL", <<"", "old">>)>>),
    T("env", <<E("REACT_APP_PUBLIC_URL", <<"", "cdn">>), E("PUBLIC_URL", <<"", "old">>)>>),
    T("env", <<E("BUILD_PATH", <<>>), E("BUILD_PATH", <<"", "abs", "out">>)>>),
    T("env", <<E("BUILD_PATH", <<"env-out">>)>>) }

JsonTexts == { T("json", <<>>) }

AllTexts == NextTexts \cup ViteTexts \cup EnvTexts \cup JsonTexts

TextsFor(f) ==
  IF f \in Range(NextConfigFiles) THEN NextTexts
  ELSE IF f \in Range(ViteDetectFiles) THEN ViteTexts
  ELSE IF f \in Range(ReactEnvFiles) THEN EnvTexts
  ELSE JsonTexts

Projects(files, texts, n) ==
  UNION { { F \in [S -> texts] : \A f \in S : F[f] \in TextsFor(f) }
          : S \in { X \in SUBSET files : Cardinality(X) <= n } }

Scripts ==
  { <<>>,
    <<E("react-scripts", <<>>), E("build", <<>>)>>,
    <<E("BUILD_PATH", <<"custom-out">>), E("react-scripts", <<>>), E("build", <<>>)>>,
    <<E("vite", <<>>), E("--outDir", <<>>), E("docs", <<>>)>> }

Manifests == [build : Scripts, devVite : BOOLEAN, reactScripts : BOOLEAN]

\* package.json as a file: missing or not JSON; the JSON text `null`, which
\* parses to a value that has no properties to read; and an object whose
\* scripts.build is a non-zero number, which has no includes method
Unparsable      == [json |-> "unparsable"]
JsonNull        == [json |-> "null"]
NonStringScript == [json |-> "scripts.build: 1"]

Malformed == {Unparsable, JsonNull, NonStringScript}

ManifestFiles == Manifests \cup Malformed

DirSets == { {}, {"build"}, {"out", "docs"} }

----------------------------------------------------------------------------
(* Branch names and dates.  A Date is the record of the fields handed to    *)
(* new Date(year, month, day, hour, minute), month counted from 0; getTime  *)
(* gives its time value in minutes since 2000-01-01 00:00, fields out of    *)
(* range carrying over as they do in a JS Date.  The process runs in UTC.   *)

DecimalDigits == "0123456789"
HexDigits     == "0123456789abcdef"

CharAt(s, i) == SubSeq(s, i, i)

\* the character c is one of the characters of the string class
InClass(c, class) == \E i \in 1..Len(class) : CharAt(class, i) = c

AllInClass(s, class) == \A i \in 1..Len(s) : InClass(CharAt(s, i), class)

\* String.prototype.slice(a, b) with 0 <= a <= b
slice(s, a, b) == SubSeq(s, a + 1, b)

DigitValue(c) == CHOOSE d \in 0..9 : CharAt(DecimalDigits, d + 1) = c

RECURSIVE parseInt(_)
parseInt(s) ==
  IF Len(s) = 0 THEN 0
  ELSE parseInt(SubSeq(s, 1, Len(s) - 1)) * 10 + DigitValue(CharAt(s, Len(s)))

\* String(n).padStart(width, '0')
RECURSIVE Pad(_, _)
Pad(n, width) ==
  IF width = 0 THEN "" ELSE Pad(n \div 10, width - 1) \o CharAt(DecimalDigits, (n % 10) + 1)

Date(year, month, day, hour, minute) ==
  [year |-> year, month |-> month, day |-> day, hour |-> hour, minute |-> minute]

LeapYear(y) == y % 4 = 0

DaysBeforeYear(y) == 365 * (y - 2000) + ((y - 2000 + 3) \div 4)

\* days of a common year before each month
CumulativeDays == <<0, 31, 59, 90, 120, 151, 181, 212, 243, 273, 304, 334>>

DaysBeforeMonth(y, m) ==
  CumulativeDays[m + 1] + (IF LeapYear(y) /\ m >= 2 THEN 1 ELSE 0)

getTime(d) ==
  LET y == d.year + (d.month \div 12)
      m == d.month % 12
  IN  ((DaysBeforeYear(y) + DaysBeforeMonth(y, m) + d.day - 1) * 24 + d.hour) * 60 + d.minute

\* Date.prototype.setMonth
setMonth(d, month) == [d EXCEPT !.month = month]

\* toISOString().slice(0, 16) with '-' and ':' removed and 'T' turned to '-'
Timestamp(d) ==
  Pad(d.year, 4) \o Pad(d.month + 1, 2) \o Pad(d.day, 2) \o "-" \o Pad(d.hour, 2)
    \o Pad(d.minute, 2)

\* GitHubPagesDeployer.generateBranchName, the base name already cleaned
generateBranchName(cleanBaseName, d, randomId) ==
  cleanBaseName \o "-" \o Timestamp(d) \o "-" \o randomId

\* branchName.match(/-(\d{8}-\d{4})-[a-f0-9]{6}$/): the captured group, or
\* the empty string when the name does not match
timestampMatch(branchName) ==
  LET n == Len(branchName)
  IN  IF /\ n >= 21
         /\ CharAt(branchName, n - 20) = "-"
         /\ AllInClass(SubSeq(branchName, n - 19, n - 12), DecimalDigits)
         /\ CharAt(branchName, n - 11) = "-"
         /\ AllInClass(SubSeq(branchName, n - 10, n - 7), DecimalDigits)
         /\ CharAt(branchName, n - 6) = "-"
         /\ AllInClass(SubSeq(branchName, n - 5, n), HexDigits)
      THEN SubSeq(branchName, n - 19, n - 7)
      ELSE ""

\* the Date built from a captured YYYYMMDD-HHMM
branchDate(timestampStr) ==
  Date(parseInt(slice(timestampStr, 0, 4)), parseInt(slice(timestampStr, 4, 6)) - 1,
       parseInt(slice(timestampStr, 6, 8)), parseInt(slice(timestampStr, 9, 11)),
       parseInt(slice(timestampStr, 11, 13)))

----------------------------------------------------------------------------
(* CleanupManager.cleanupOldBranches *)

MonthsKept == 4

\* the time value of fourMonthsAgo
Threshold(d) == getTime(setMonth(d, d.month - MonthsKept))

\* the forEach over the listed branches
branchesToDelete(B, d) ==
  { b \in B : /\ b \notin {"main", "master"}
              /\ timestampMatch(b) # ""
              /\ getTime(branchDate(timestampMatch(b))) < Threshold(d) }

LowerOf(c) ==
  CASE c = "Y" -> "y" [] c = "E" -> "e" [] c = "S" -> "s" [] c = "N" -> "n" [] c = "O" -> "o"
    [] OTHER -> c

RECURSIVE toLowerCase(_)
toLowerCase(s) ==
  IF Len(s) = 0 THEN "" ELSE LowerOf(CharAt(s, 1)) \o toLowerCase(SubSeq(s, 2, Len(s)))

\* PromptUtil.promptUser: the trimmed answer, or the default when it is empty
promptUser(trimmedAnswer, defaultValue) ==
  IF trimmedAnswer = "" THEN defaultValue ELSE trimmedAnswer

\* variant: anything but a refusal counts as consent
shouldDelete_UnlessNo(autoMode, answer) ==
  autoMode \/ toLowerCase(promptUser(answer, "N")) \notin {"n", "no"}

shouldDelete(autoMode, answer) ==
  \/ autoMode
  \/ LET confirm == promptUser(answer, "N")
     IN  toLowerCase(confirm) = "y" \/ toLowerCase(confirm) = "yes"

NoCleanup == [called |-> FALSE]

\* one call: hasConfig is whether this.config is set, listed whether the branch
\* listing succeeded; selected is branchesToDelete as the call computed it
\* and requests the branches a DELETE was issued for
CleanupCall(autoMode, answer, hasConfig, listed, selected, requests) ==
  [called |-> TRUE, autoMode |-> autoMode, answer |-> answer, config |-> hasConfig,
   listed |-> listed, seen |-> branches, at |-> now, selected |-> selected,
   requests |-> requests]

\* the whole call; answer is what the user types if asked and failing are the
\* branches whose DELETE request fails
cleanupOldBranches(autoMode, answer, hasConfig, listed, failing) ==
  IF ~hasConfig \/ ~listed
  THEN /\ lastCleanup' = CleanupCall(autoMode, answer, hasConfig, listed, {}, {})
       /\ branches' = branches
  ELSE LET selected == branchesToDelete(branches, now)
           requests == IF selected # {} /\ shouldDelete(autoMode, answer) THEN selected ELSE {}
       IN  /\ lastCleanup' = CleanupCall(autoMode, answer, hasConfig, listed, selected, requests)
           /\ branches' = branches \ (requests \ failing)

\* the moments at which something is done
Times ==
  << Date(2025, 2, 31, 10, 0), Date(2025, 3, 9, 10, 5), Date(2025, 7, 1, 9, 30) >>

\* no branch, no cleanup: the state of the specifications that run no cleanup
IdleCleanup ==
  /\ branches = {} /\ now = Times[1] /\ cleanups = 0 /\ lastCleanup = NoCleanup

----------------------------------------------------------------------------
(* ProgressUtil.  The four console methods are replaced and put back         *)
(* together, so the console is "real" (the methods the process started      *)
(* with) or "noop" (the silencing functions); originalConsole is "null" or  *)
(* the methods it holds.  Each method maps the console, originalConsole and *)
(* interval it finds to the ones it leaves.                                  *)

ConsoleState(c, o, i) == [console |-> c, originalConsole |-> o, interval |-> i]

\* variant: the console is captured on every call
silentConsole_Unguarded(debug, U) ==
  IF debug THEN U
  ELSE [U EXCEPT !.originalConsole = U.console, !.console = "noop"]

silentConsole(debug, U) ==
  IF debug THEN U
  ELSE IF U.originalConsole = "null"
       THEN [U EXCEPT !.originalConsole = U.console, !.console = "noop"]
       ELSE U

\* what silentConsole returns: a no-op in debug mode, else a call of restoreConsole
ReturnedBySilentConsole(debug) == IF debug THEN "noop" ELSE "restore"

restoreConsole(debug, U) ==
  IF debug \/ U.originalConsole = "null" THEN U
  ELSE [U EXCEPT !.console = U.originalConsole, !.originalConsole = "null"]

CallReturned(fn, debug, U) == IF fn = "restore" THEN restoreConsole(debug, U) ELSE U

updateProgress(debug, U) == IF debug THEN U ELSE [U EXCEPT !.interval = TRUE]

\* completeStep, failStep and complete all clear the interval
clearInterval(debug, U) == IF debug THEN U ELSE [U EXCEPT !.interval = FALSE]

\* `const wasRestored = !this.originalConsole`
wasRestored(U) == U.originalConsole = "null"

\* step up to the call of asyncFn
stepEnter(debug, U) ==
  IF debug THEN U ELSE restoreConsole(debug, updateProgress(debug, U))

\* step from the end of asyncFn on: the state it leaves, the error it throws
\* ("none" when it returns) and whether failStep ran.  wasRestored is
\* declared in the try block, so the catch block's reading of it throws a
\* ReferenceError before silentConsole, failStep and `throw error` are reached.
stepLeave(debug, U, restoredAtEntry, fnThrew) ==
  IF debug
  THEN [u |-> U, error |-> IF fnThrew THEN "E" ELSE "none", failed |-> FALSE]
  ELSE IF ~fnThrew
  THEN [u |-> clearInterval(debug, IF ~restoredAtEntry THEN silentConsole(debug, U) ELSE U),
        error |-> "none", failed |-> FALSE]
  ELSE [u |-> U, error |-> "ReferenceError", failed |-> FALSE]

step(debug, U, fnThrew) ==
  stepLeave(debug, stepEnter(debug, U), wasRestored(U), fnThrew)

NoStepYet == [called |-> FALSE]

NoStep == [waiting |-> FALSE]

\* a ProgressUtil as constructed, not in debug mode and not used
IdleProgress ==
  /\ console = "real" /\ originalConsole = "null" /\ interval = FALSE
  /\ debugMode = FALSE /\ restoreFn = "null" /\ lastStep = NoStepYet /\ trace = <<>>

----------------------------------------------------------------------------
(* GitHubUtil and the state deploy() starts from *)

AuthStatuses == {"none", "github.com", "ghe.example.com"}

\* GitHubUtil.checkAuthentication on the host `gh auth status` reports
\* ("none": not logged in or no host line): the hostname, or "null"
checkAuthentication_AnyHost(auth) == IF auth = "none" THEN "null" ELSE auth

checkAuthentication(auth) ==
  IF auth = "none" THEN "null"
  ELSE IF auth = "github.com" THEN "null"
  ELSE auth

\* deploy() not called
IdleRun ==
  /\ stage = "new"
  /\ gh = [cli |-> TRUE, auth |-> "ghe.example.com"]
  /\ deployConfig = [autoCleanup |-> FALSE, hostname |-> TRUE]
  /\ gitDeployer = FALSE /\ tempDir = "null" /\ effects = <<>>
  /\ error = "none" /\ inStep = NoStep

----------------------------------------------------------------------------
(* Detection run: the constructor of GitHubPagesDeployer *)

Repositories == {"previews", "old"}

\* process.env: variable name -> string
BaseEnv == ("PATH" :> "/usr/bin")

Environments == { BaseEnv, ("PUBLIC_URL" :> "/old") @@ BaseEnv }

InitProject(projects, manifests, dirsets, repos, envs) ==
  /\ fs \in projects
  /\ dirs \in dirsets
  /\ unreadable \in { {} } \cup { {f} : f \in DOMAIN fs }
  /\ pkg \in manifests
  /\ repository \in repos
  /\ pc = "start"
  /\ buildConfig = NoProfile
  /\ originalConfigs = <<>>
  /\ outputMade = FALSE
  /\ log = <<>>
  /\ env \in envs
  /\ originalEnv = <<>>

Init ==
  /\ InitProject(Projects(Files, AllTexts, MaxFiles), ManifestFiles, DirSets, {"previews"},
                 {BaseEnv})
  /\ IdleCleanup /\ IdleProgress /\ IdleRun

Thrown == [threw |-> TRUE]

\* FileUtil.loadPackageJson: JSON.parse(readFileSync(..)), any error rethrown
loadPackageJson(raw) == IF raw = Unparsable THEN Thrown ELSE raw

\* TypeErrors outside any try in the eager evaluation of the four finders:
\* this.packageJson.dependencies on null, buildScript.includes on a number
detectThrows(P) == P \in {JsonNull, NonStringScript}

\* the constructor: a throw of loadPackageJson or of detectBuildConfig leaves
\* no deployer object
Construct ==
  /\ pc = "start"
  /\ LET packageJson == loadPackageJson(pkg)
     IN  IF packageJson = Thrown \/ detectThrows(packageJson)
         THEN /\ pc' = "failed"
              /\ buildConfig' = buildConfig
         ELSE /\ buildConfig' = detectBuildConfig(fs, dirs, unreadable, packageJson)
              /\ pc' = "ready"
  /\ UNCHANGED <<fs, dirs, unreadable, pkg, originalConfigs, repository, outputMade, log,
                 env, originalEnv, cleanupVars, progressVars, runVars>>

Next == Construct

Spec == Init /\ [][Next]_vars

----------------------------------------------------------------------------
(* A BuildConfigurer driven by a caller: any sequence of configureBasePath   *)
(* and restoreOriginalConfig calls, with the project possibly edited by      *)
(* someone else between two calls.                                           *)

\* `/${this.configManager.config.repository}`
BasePathOf(repo) == <<"", repo>>

\* the file configureBasePath reads or writes for a framework
ConfigureTarget(framework, F) ==
  CASE framework = "next"  -> IF find(NextConfigFiles, F) # Undefined
                              THEN find(NextConfigFiles, F) ELSE "next.config.js"
    [] framework = "vite"  -> IF find(ViteConfigFiles, F) # Undefined
                              THEN find(ViteConfigFiles, F)
                              ELSE IF existsSync(F, "tsconfig.json") THEN "vite.config.ts"
                              ELSE "vite.config.js"
    [] framework = "react" -> ".env.local"
    [] OTHER               -> Undefined

\* the read of the target throws
ReadFails(framework, F, U) ==
  /\ ConfigureTarget(framework, F) # Undefined
  /\ existsSync(F, ConfigureTarget(framework, F))
  /\ ~CanRead(F, U, ConfigureTarget(framework, F))

\* the write modes that can occur in a configure call: no write is reached
\* for a generic project or after a failed read
ConfigureWriteModes(framework, F, U) ==
  IF ConfigureTarget(framework, F) = Undefined \/ ReadFails(framework, F, U)
  THEN {"ok"} ELSE WriteModes

Event(op, threw, ioFailed, attempted) ==
  [op |-> op, threw |-> threw, ioFailed |-> ioFailed, attempted |-> attempted,
   before |-> fs, held |-> originalConfigs, env |-> env]

DoConfigure(w) ==
  LET r == configureBasePath(buildConfig.framework, fs, unreadable, originalConfigs,
                             BasePathOf(repository), w)
  IN  /\ fs' = r.fs
      /\ originalConfigs' = r.oc
      /\ log' = Append(log, Event("configure", r.threw,
                                  ReadFails(buildConfig.framework, fs, unreadable) \/ w # "ok", 0))

DoRestore(failAt, w) ==
  LET r == restoreOriginalConfig(fs, originalConfigs, failAt, w)
  IN  /\ fs' = r.fs
      /\ originalConfigs' = r.oc
      /\ log' = Append(log, Event("restore", r.threw, failAt # 0, r.attempted))

\* the failures a restore call can meet: none, or the file operation of one
\* record throwing
RestoreFailures ==
  { <<0, "ok">> } \cup
  { x \in (1..Len(originalConfigs)) \X {"eacces", "enospc"} :
      /\ RestoreTouches(fs, originalConfigs[x[1]])
      /\ (x[2] = "enospc" => originalConfigs[x[1]].orig # Null) }

Configure ==
  /\ pc = "ready"
  /\ Len(log) < MaxSteps
  /\ \E w \in ConfigureWriteModes(buildConfig.framework, fs, unreadable) : DoConfigure(w)
  /\ UNCHANGED <<dirs, unreadable, pkg, pc, buildConfig, repository, outputMade, env, originalEnv, cleanupVars, progressVars, runVars>>

Restore ==
  /\ pc = "ready"
  /\ Len(log) < MaxSteps
  /\ \E x \in RestoreFailures : DoRestore(x[1], x[2])
  /\ UNCHANGED <<dirs, unreadable, pkg, pc, buildConfig, repository, outputMade, env, originalEnv, cleanupVars, progressVars, runVars>>

\* what someone else may do to the project between two calls: create,
\* rewrite or delete the first file the framework's configure step looks for
EditFile(framework) ==
  CASE framework = "next"  -> "next.config.js"
    [] framework = "vite"  -> "vite.config.js"
    [] framework = "react" -> ".env.local"
    [] OTHER               -> Undefined

EditText(f) ==
  CASE f = "next.config.js" -> T("cjs", <<E("poweredByHeader", <<"false">>)>>)
    [] f = "vite.config.js" -> T("esm", <<E("server.port", <<"3000">>)>>)
    [] OTHER                -> T("env", <<E("API_URL", <<"", "api">>)>>)

ExternalEdit ==
  /\ pc = "ready"
  /\ log # <<>>
  /\ Len(log) < MaxSteps
  /\ EditFile(buildConfig.framework) # Undefined
  /\ LET f == EditFile(buildConfig.framework)
     IN  \/ /\ existsSync(fs, f)
            /\ fs' = unlinkSync(fs, f, "ok")
         \/ /\ (existsSync(fs, f) => fs[f] # EditText(f))
            /\ fs' = writeFileSync(fs, f, EditText(f), "ok")
  /\ log' = Append(log, Event("edit", FALSE, FALSE, 0))
  /\ UNCHANGED <<dirs, unreadable, pkg, pc, buildConfig, originalConfigs, repository, outputMade,
                 env, originalEnv, cleanupVars, progressVars, runVars>>

\* the files a BuildConfigurer looks at, and one detected but never patched
PatchFiles == Range(NextConfigFiles) \cup Range(ViteConfigFiles)
                \cup {"vitest.config.js", "tsconfig.json", ".env.local"}

\* the texts a BuildConfigurer is driven on: an empty file, modules that
\* evaluate and modules that do not, with and without the field to patch
PatchTexts ==
  { EmptyText,
    T("cjs", <<E("reactStrictMode", <<"true">>)>>),
    T("complex", <<E("distDir", <<>>), E("distDir", <<"..", "up">>)>>),
    T("complex", <<E("basePath", <<"", "old">>), E("reactStrictMode", <<"true">>)>>),
    T("defineConfig", <<E("plugins", <<"[]">>)>>),
    T("cjs", <<E("plugins", <<"[]">>)>>),
    T("cjs", <<E("base", <<"", "old">>), E("build.outDir", <<>>)>>),
    T("env", <<E("PUBLIC_URL", <<"", "old">>)>>),
    T("env", <<E("REACT_APP_PUBLIC_URL", <<"", "cdn">>), E("PUBLIC_URL", <<"", "old">>)>>),
    T("json", <<>>) }

ConfigurerManifests == [build : {<<>>}, devVite : BOOLEAN, reactScripts : BOOLEAN]

\* a BuildConfigurer sees the framework only: manifests are drawn so that every
\* dependency they declare is the signal detection acts on
ConfigurerInit ==
  /\ InitProject(Projects(PatchFiles, PatchTexts, MaxPatchFiles), ConfigurerManifests,
                 {{}}, {"previews"}, {BaseEnv})
  /\ pkg.devVite => detectBuildConfig(fs, dirs, unreadable, pkg).framework = "vite"
  /\ pkg.reactScripts => detectBuildConfig(fs, dirs, unreadable, pkg).framework = "react"
  /\ IdleCleanup /\ IdleProgress /\ IdleRun

ConfigurerNext == Construct \/ Configure \/ Restore \/ ExternalEdit

ConfigurerSpec == ConfigurerInit /\ [][ConfigurerNext]_vars

----------------------------------------------------------------------------
(* BuildConfigurer (environment variant): the base path is handed to the     *)
(* build through process.env instead of through patched files.               *)

\* String.prototype.includes / indexOf / replace(string, string)
IndexOf(str, sub) ==
  LET at == { i \in 1..(Len(str) - Len(sub) + 1) : SubSeq(str, i, i + Len(sub) - 1) = sub }
  IN  IF at = {} THEN 0 ELSE CHOOSE i \in at : \A j \in at : i <= j

includesText(str, sub) == IndexOf(str, sub) # 0

replaceText(str, sub, new) ==
  LET i == IndexOf(str, sub)
  IN  IF i = 0 THEN str
      ELSE SubSeq(str, 1, i - 1) \o new \o SubSeq(str, i + Len(sub), Len(str))

\* the text of a path: its segments joined by '/'
RECURSIVE PathText(_)
PathText(p) ==
  IF p = <<>> THEN ""
  ELSE IF Len(p) = 1 THEN Head(p)
  ELSE Head(p) \o "/" \o PathText(Tail(p))

\* process.env[k] = v
SetEnv(Env, k, v) == (k :> v) @@ Env

configureNextJsEnv(Env, basePath) ==
  SetEnv(SetEnv(SetEnv(Env,
    "NEXT_PUBLIC_BASE_PATH", PathText(basePath)),
    "NEXT_BASE_PATH", PathText(basePath)),
    "NEXT_ASSET_PREFIX", PathText(basePath))

\* sets VITE_BASE and rewrites buildConfig.buildCommand in place
configureViteEnv(Env, profile, basePath) ==
  [env |-> SetEnv(Env, "VITE_BASE", PathText(basePath)),
   buildConfig |->
     IF includesText(profile.buildCommand, "vite build")
     THEN [profile EXCEPT !.buildCommand =
             replaceText(profile.buildCommand, "vite build",
                         "vite build --base=\"" \o PathText(basePath) \o "\"")]
     ELSE profile]

configureReactEnv(Env, basePath) == SetEnv(Env, "PUBLIC_URL", PathText(basePath))

\* configureBasePath of the environment variant: the snapshot is taken first
configureBasePathEnv(profile, Env, basePath) ==
  CASE profile.framework = "next" ->
         [env |-> configureNextJsEnv(Env, basePath), originalEnv |-> Env,
          buildConfig |-> profile]
    [] profile.framework = "vite" ->
         [env |-> configureViteEnv(Env, profile, basePath).env, originalEnv |-> Env,
          buildConfig |-> configureViteEnv(Env, profile, basePath).buildConfig]
    [] profile.framework = "react" ->
         [env |-> configureReactEnv(Env, basePath), originalEnv |-> Env,
          buildConfig |-> profile]
    [] OTHER ->
         [env |-> Env, originalEnv |-> Env, buildConfig |-> profile]

\* restoreOriginalConfig of the environment variant: every variable that is
\* not in the snapshot is deleted, every variable of the snapshot is set
\* back, and the snapshot is emptied
restoreOriginalEnv(Env, saved) ==
  LET kept == [k \in (DOMAIN Env) \cap (DOMAIN saved) |-> Env[k]]
  IN  [env |-> saved @@ kept, originalEnv |-> <<>>]

EnvConfigure ==
  /\ pc = "ready"
  /\ Len(log) < MaxSteps
  /\ LET r == configureBasePathEnv(buildConfig, env, BasePathOf(repository))
     IN  /\ env' = r.env
         /\ originalEnv' = r.originalEnv
         /\ buildConfig' = r.buildConfig
  /\ log' = Append(log, Event("configure", FALSE, FALSE, 0))
  /\ UNCHANGED <<fs, dirs, unreadable, pkg, pc, originalConfigs, repository, outputMade, cleanupVars, progressVars, runVars>>

EnvRestore ==
  /\ pc = "ready"
  /\ Len(log) < MaxSteps
  /\ LET r == restoreOriginalEnv(env, originalEnv)
     IN  /\ env' = r.env
         /\ originalEnv' = r.originalEnv
  /\ log' = Append(log, Event("restore", FALSE, FALSE, 0))
  /\ UNCHANGED <<fs, dirs, unreadable, pkg, pc, buildConfig, originalConfigs, repository,
                 outputMade, cleanupVars, progressVars, runVars>>

EnvConfigurerInit ==
  /\ InitProject(Projects(PatchFiles, PatchTexts, MaxPatchFiles), ConfigurerManifests,
                 {{}}, Repositories, Environments)
  /\ unreadable = {}
  /\ pkg.devVite => detectBuildConfig(fs, dirs, unreadable, pkg).framework = "vite"
  /\ pkg.reactScripts => detectBuildConfig(fs, dirs, unreadable, pkg).framework = "react"
  /\ IdleCleanup /\ IdleProgress /\ IdleRun

EnvConfigurerNext == Construct \/ EnvConfigure \/ EnvRestore

EnvConfigurerSpec == EnvConfigurerInit /\ [][EnvConfigurerNext]_vars

----------------------------------------------------------------------------
(* GitHubPagesDeployer.buildProject, step by step: configureBasePath, then   *)
(* try { execSync(buildCommand) } catch { throw } finally { restore }, then  *)
(* the check that the output directory exists.                               *)

BuildOutcomes == {"ok", "nonzero", "spawn-error"}

\* variant: restore is called at the end of the try block instead of in finally
AfterBuild_NoFinally(outcome) == IF outcome = "ok" THEN "finally" ELSE "threw"

\* where control goes when execSync returns or throws: the catch block
\* rethrows, and the finally block runs in both cases
AfterBuild(outcome) == "finally"

\* where control goes after the finally block
AfterFinally(restoreThrew, buildThrew) ==
  IF restoreThrew \/ buildThrew THEN "threw" ELSE "verify"

\* fs.existsSync(path.join(cwd, outputDir))
OutputExists(D, made, outputDir) ==
  made \/ (Len(outputDir) = 1 /\ outputDir[1] \in D)

BP_Configure ==
  /\ pc = "ready"
  /\ \E w \in ConfigureWriteModes(buildConfig.framework, fs, unreadable) : DoConfigure(w)
  /\ pc' = IF log'[Len(log')].threw THEN "threw" ELSE "configured"
  /\ UNCHANGED <<dirs, unreadable, pkg, buildConfig, repository, outputMade, env, originalEnv, cleanupVars, progressVars, runVars>>

BP_Build ==
  /\ pc = "configured"
  /\ \E outcome \in BuildOutcomes :
       /\ log' = Append(log, Event("build", outcome # "ok", FALSE, 0))
       /\ outputMade' \in (IF outcome = "ok" THEN BOOLEAN ELSE {FALSE})
       /\ pc' = AfterBuild(outcome)
  /\ UNCHANGED <<fs, dirs, unreadable, pkg, buildConfig, originalConfigs, repository, env, originalEnv, cleanupVars, progressVars, runVars>>

BP_Finally ==
  /\ pc = "finally"
  /\ \E x \in RestoreFailures : DoRestore(x[1], x[2])
  /\ pc' = AfterFinally(log'[Len(log')].threw, log[Len(log)].threw)
  /\ UNCHANGED <<dirs, unreadable, pkg, buildConfig, repository, outputMade, env, originalEnv, cleanupVars, progressVars, runVars>>

BP_Verify ==
  /\ pc = "verify"
  /\ pc' = IF OutputExists(dirs, outputMade, buildConfig.outputDir) THEN "returned" ELSE "threw"
  /\ UNCHANGED <<fs, dirs, unreadable, pkg, buildConfig, originalConfigs, repository,
                 outputMade, log,
                 env, originalEnv, cleanupVars, progressVars, runVars>>

DeployInit ==
  /\ InitProject(Projects(PatchFiles, PatchTexts, MaxPatchFiles),
                 ConfigurerManifests \cup Malformed, DirSets, Repositories, {BaseEnv})
  /\ pkg \notin Malformed =>
       /\ pkg.devVite => detectBuildConfig(fs, dirs, unreadable, pkg).framework = "vite"
       /\ pkg.reactScripts => detectBuildConfig(fs, dirs, unreadable, pkg).framework = "react"
  /\ IdleCleanup /\ IdleProgress /\ IdleRun

DeployNext == Construct \/ BP_Configure \/ BP_Build \/ BP_Finally \/ BP_Verify

DeploySpec == DeployInit /\ [][DeployNext]_vars

----------------------------------------------------------------------------
(* The deployment repository over time: deploy runs push branches, time     *)
(* passes, cleanups are run by hand or after a deployment.                   *)

MaxBranches == 3     \* branches of the deployment repository
MaxCleanups == 1     \* cleanupOldBranches calls

InitialBranches ==
  { "main", "master", "feature-login",
    "docs-20240102-0304-abcdef",
    "app-20250320-0900-0a1b2c",
    "app-20250320-0900-0A1B2C",
    "app-20240102-0304-abcdef0",
    "release-20240102" }

Answers == {"", "y", "YES", "n", "ok"}

CleanBaseNames == {"app"}
RandomIds == {"c0ffee"}

IdleProject ==
  /\ fs = <<>> /\ dirs = {} /\ unreadable = {} /\ pkg = Unparsable
  /\ repository = "previews" /\ pc = "idle" /\ buildConfig = NoProfile
  /\ originalConfigs = <<>> /\ outputMade = FALSE /\ log = <<>>
  /\ env = BaseEnv /\ originalEnv = <<>>

\* a deploy run pushes its branch
PushBranch ==
  /\ Cardinality(branches) < MaxBranches
  /\ \E base \in CleanBaseNames, id \in RandomIds :
       /\ generateBranchName(base, now, id) \notin branches
       /\ branches' = branches \cup {generateBranchName(base, now, id)}
  /\ UNCHANGED <<fs, dirs, unreadable, pkg, pc, buildConfig, originalConfigs, repository,
                 outputMade, log, env, originalEnv, now, cleanups, lastCleanup,
                 progressVars, runVars>>

TimePasses ==
  /\ \E i, j \in 1..Len(Times) : i < j /\ now = Times[i] /\ now' = Times[j]
  /\ UNCHANGED <<fs, dirs, unreadable, pkg, pc, buildConfig, originalConfigs, repository,
                 outputMade, log, env, originalEnv, branches, cleanups, lastCleanup,
                 progressVars, runVars>>

Cleanup ==
  /\ cleanups < MaxCleanups
  /\ cleanups' = cleanups + 1
  /\ LET found == branchesToDelete(branches, now)
     IN  \E autoMode \in BOOLEAN, hasConfig \in BOOLEAN, listed \in BOOLEAN :
           /\ (~hasConfig => listed)
           /\ \E answer \in (IF ~autoMode /\ hasConfig /\ listed /\ found # {}
                              THEN Answers ELSE {""}) :
                \E failing \in (IF hasConfig /\ listed /\ shouldDelete(autoMode, answer)
                                 THEN SUBSET found ELSE {{}}) :
                  cleanupOldBranches(autoMode, answer, hasConfig, listed, failing)
  /\ UNCHANGED <<fs, dirs, unreadable, pkg, pc, buildConfig, originalConfigs, repository,
                 outputMade, log, env, originalEnv, now,
                 progressVars, runVars>>

CleanupInit ==
  /\ IdleProject
  /\ branches \in { B \in SUBSET InitialBranches : Cardinality(B) <= MaxBranches - 1 }
  /\ now = Times[1]
  /\ cleanups = 0
  /\ lastCleanup = NoCleanup
  /\ IdleProgress /\ IdleRun

CleanupNext == PushBranch \/ TimePasses \/ Cleanup

CleanupSpec == CleanupInit /\ [][CleanupNext]_vars

----------------------------------------------------------------------------
(* One ProgressUtil called by its user in any order *)

MaxCalls == 4        \* calls on one ProgressUtil

projectVars == <<fs, dirs, unreadable, pkg, pc, buildConfig, originalConfigs, repository,
                 outputMade, log, env, originalEnv>>

Current == ConsoleState(console, originalConsole, interval)

SetConsole(U) ==
  /\ console' = U.console
  /\ originalConsole' = U.originalConsole
  /\ interval' = U.interval

StepCall(fnThrew, r) ==
  [called |-> TRUE, fnThrew |-> fnThrew, error |-> r.error, failed |-> r.failed,
   consoleBefore |-> console]

SilentConsole ==
  /\ Len(trace) < MaxCalls
  /\ SetConsole(silentConsole(debugMode, Current))
  /\ restoreFn' = ReturnedBySilentConsole(debugMode)
  /\ trace' = Append(trace, "silentConsole")
  /\ UNCHANGED <<projectVars, cleanupVars, runVars, debugMode, lastStep>>

RestoreConsole ==
  /\ Len(trace) < MaxCalls
  /\ SetConsole(restoreConsole(debugMode, Current))
  /\ trace' = Append(trace, "restoreConsole")
  /\ UNCHANGED <<projectVars, cleanupVars, runVars, debugMode, restoreFn, lastStep>>

CallRestoreFn ==
  /\ Len(trace) < MaxCalls
  /\ restoreFn # "null"
  /\ SetConsole(CallReturned(restoreFn, debugMode, Current))
  /\ trace' = Append(trace, "returned")
  /\ UNCHANGED <<projectVars, cleanupVars, runVars, debugMode, restoreFn, lastStep>>

Step ==
  /\ Len(trace) < MaxCalls
  /\ \E fnThrew \in BOOLEAN :
       LET r == step(debugMode, Current, fnThrew)
       IN  /\ SetConsole(r.u)
           /\ lastStep' = StepCall(fnThrew, r)
           /\ trace' = Append(trace, IF fnThrew THEN "step throws" ELSE "step")
  /\ UNCHANGED <<projectVars, cleanupVars, runVars, debugMode, restoreFn>>

ProgressInit ==
  /\ IdleProject /\ IdleCleanup /\ IdleRun
  /\ console = "real" /\ originalConsole = "null" /\ interval = FALSE
  /\ debugMode \in BOOLEAN
  /\ restoreFn = "null" /\ lastStep = NoStepYet /\ trace = <<>>

ProgressNext == SilentConsole \/ RestoreConsole \/ CallRestoreFn \/ Step

ProgressSpec == ProgressInit /\ [][ProgressNext]_vars

----------------------------------------------------------------------------
(* GitHubPagesDeployer.deploy: the pre-flight checks, the steps run through  *)
(* ProgressUtil.step, and the catch and finally blocks.  The configuration   *)
(* is the one deploy() works with once setup or the project name prompt is   *)
(* over.                                                                     *)

\* this.branchName, generated by the constructor
branchName == generateBranchName("app", Times[1], "c0ffee")

Ran(name, outcome, threw) == [step |-> name, outcome |-> outcome, threw |-> threw]

\* variant: deploy goes on after a step that threw
AfterStep_GoesOn(threw, next) == next

\* where deploy() goes after an awaited step: a throw leaves the try block
AfterStep(threw, next) == IF threw THEN "catch" ELSE next

\* GitDeployer.cleanup; rm is the outcome of fs.rmSync
cleanup(dir, rm) == IF dir = "exists" /\ rm = "ok" THEN "removed" ELSE dir

\* `if (gitDeployer) gitDeployer.cleanup()`
CleanupIfCreated(deployer, dir, rm) == IF deployer THEN cleanup(dir, rm) ELSE dir

\* progress.restoreConsole() followed by `if (restoreConsole) restoreConsole()`
RestoreTwice(fn, debug, U) == CallReturned(fn, debug, restoreConsole(debug, U))

\* await this.progress.step(description, fn) for a function that runs in one go
RunStep(fnThrew) ==
  LET r == step(debugMode, Current, fnThrew)
  IN  /\ SetConsole(r.u)
      /\ lastStep' = StepCall(fnThrew, r)
      /\ error' = r.error

Preflight ==
  /\ pc = "ready" /\ stage = "new"
  /\ IF ~gh.cli \/ checkAuthentication(gh.auth) = "null"
     THEN /\ stage' = "finally"
          /\ UNCHANGED <<console, originalConsole, interval, restoreFn, lastStep, gitDeployer>>
     ELSE LET silenced == silentConsole(debugMode, Current)
              started  == updateProgress(debugMode, silenced)
              r        == step(debugMode, started, FALSE)
          IN  /\ SetConsole(r.u)
              /\ lastStep' = [StepCall(FALSE, r) EXCEPT !.consoleBefore = started.console]
              /\ restoreFn' = ReturnedBySilentConsole(debugMode)
              /\ gitDeployer' = TRUE
              /\ stage' = "setup"
  /\ UNCHANGED <<projectVars, cleanupVars, debugMode, trace, gh, deployConfig, tempDir,
                 effects, error, inStep>>

\* 'Setting up deployment repository': GitDeployer.ensureGitRepo
EnsureGitRepo ==
  /\ stage = "setup"
  /\ \E outcome \in {"ok", "mkdir fails", "git fails"} :
       LET threw == outcome # "ok" \/ ~deployConfig.hostname
       IN  /\ tempDir' = IF outcome = "mkdir fails" THEN "missing" ELSE "exists"
           /\ effects' = Append(effects, Ran("setup", outcome, threw))
           /\ RunStep(threw)
           /\ stage' = AfterStep(threw, "build")
  /\ UNCHANGED <<projectVars, cleanupVars, debugMode, restoreFn, trace, gh, deployConfig,
                 gitDeployer, inStep>>

\* 'Building project': step up to the call of buildProject
BeginBuild ==
  /\ stage = "build"
  /\ inStep' = [waiting |-> TRUE, restoredAtEntry |-> wasRestored(Current),
                consoleBefore |-> console]
  /\ SetConsole(stepEnter(debugMode, Current))
  /\ stage' = "building"
  /\ UNCHANGED <<projectVars, cleanupVars, debugMode, restoreFn, lastStep, trace, gh,
                 deployConfig, gitDeployer, tempDir, effects, error>>

\* buildProject
Building ==
  /\ stage = "building"
  /\ BP_Configure \/ BP_Build \/ BP_Finally \/ BP_Verify

\* 'Building project': step once buildProject has returned or thrown
EndBuild ==
  /\ stage = "building"
  /\ pc \in {"returned", "threw"}
  /\ LET threw == pc = "threw"
         r == stepLeave(debugMode, Current, inStep.restoredAtEntry, threw)
     IN  /\ SetConsole(r.u)
         /\ lastStep' = [StepCall(threw, r) EXCEPT !.consoleBefore = inStep.consoleBefore]
         /\ error' = r.error
         /\ effects' = Append(effects, Ran("build", pc, threw))
         /\ stage' = AfterStep(threw, "push")
  /\ inStep' = NoStep
  /\ UNCHANGED <<projectVars, cleanupVars, debugMode, restoreFn, trace, gh, deployConfig,
                 gitDeployer, tempDir>>

\* 'Deploying to GitHub': GitDeployer.deployToGitHub
DeployToGitHub ==
  /\ stage = "push"
  /\ \E outcome \in {"ok", "checkout fails", "copy fails", "push fails"} :
       /\ branches' = IF outcome = "ok" THEN branches \cup {branchName} ELSE branches
       /\ effects' = Append(effects, Ran("push", outcome, outcome # "ok"))
       /\ RunStep(outcome # "ok")
       /\ stage' = AfterStep(outcome # "ok", "pages")
  /\ UNCHANGED <<projectVars, now, cleanups, lastCleanup, debugMode, restoreFn, trace, gh,
                 deployConfig, gitDeployer, tempDir, inStep>>

\* 'Configuring GitHub Pages': PagesDeployer.enableGitHubPages, which catches
\* every failure of its own
EnableGitHubPages ==
  /\ stage = "pages"
  /\ \E outcome \in {"configured", "not configured", "error caught"} :
       effects' = Append(effects, Ran("pages", outcome, FALSE))
  /\ RunStep(FALSE)
  /\ stage' = AfterStep(FALSE, IF deployConfig.autoCleanup THEN "cleanup" ELSE "complete")
  /\ UNCHANGED <<projectVars, cleanupVars, debugMode, restoreFn, trace, gh, deployConfig,
                 gitDeployer, tempDir, inStep>>

\* 'Cleaning up old branches': cleanupOldBranches(true), which catches every
\* failure of its own
AutoCleanup ==
  /\ stage = "cleanup"
  /\ cleanups' = cleanups + 1
  /\ \E listed \in BOOLEAN :
       \E failing \in (IF listed THEN SUBSET branchesToDelete(branches, now) ELSE {{}}) :
         /\ cleanupOldBranches(TRUE, "", TRUE, listed, failing)
         /\ effects' = Append(effects, Ran("cleanup", IF listed THEN "listed" ELSE "list fails",
                                           FALSE))
  /\ RunStep(FALSE)
  /\ stage' = AfterStep(FALSE, "complete")
  /\ UNCHANGED <<projectVars, now, debugMode, restoreFn, trace, gh, deployConfig, gitDeployer,
                 tempDir, inStep>>

\* progress.complete(), restoreConsole() and the final messages
Complete ==
  /\ stage = "complete"
  /\ SetConsole(CallReturned(restoreFn, debugMode, clearInterval(debugMode, Current)))
  /\ stage' = "finally"
  /\ UNCHANGED <<projectVars, cleanupVars, debugMode, restoreFn, lastStep, trace, gh,
                 deployConfig, gitDeployer, tempDir, effects, error, inStep>>

\* the catch block: process.exit(1) ends the process there
Catch ==
  /\ stage = "catch"
  /\ SetConsole(RestoreTwice(restoreFn, debugMode, Current))
  /\ stage' = "exited"
  /\ UNCHANGED <<projectVars, cleanupVars, debugMode, restoreFn, lastStep, trace, gh,
                 deployConfig, gitDeployer, tempDir, effects, error, inStep>>

\* the finally block, reached when the try block returned
Finally ==
  /\ stage = "finally"
  /\ SetConsole(RestoreTwice(restoreFn, debugMode, Current))
  /\ \E rm \in {"ok", "fails"} : tempDir' = CleanupIfCreated(gitDeployer, tempDir, rm)
  /\ stage' = "returned"
  /\ UNCHANGED <<projectVars, cleanupVars, debugMode, restoreFn, lastStep, trace, gh,
                 deployConfig, gitDeployer, effects, error, inStep>>

\* the files a deploy run is started on
RunFiles == {"next.config.js", "vitest.config.js", "tsconfig.json", ".env.local"}

GitHubStates ==
  { [cli |-> FALSE, auth |-> "ghe.example.com"] } \cup [cli : {TRUE}, auth : AuthStatuses]

RunInit ==
  /\ InitProject(Projects(RunFiles, PatchTexts, MaxPatchFiles), ConfigurerManifests,
                 DirSets, {"previews"}, {BaseEnv})
  /\ pkg.devVite => detectBuildConfig(fs, dirs, unreadable, pkg).framework = "vite"
  /\ pkg.reactScripts => detectBuildConfig(fs, dirs, unreadable, pkg).framework = "react"
  /\ branches = {"main", "docs-20240102-0304-abcdef"}
  /\ now = Times[1] /\ cleanups = 0 /\ lastCleanup = NoCleanup
  /\ console = "real" /\ originalConsole = "null" /\ interval = FALSE
  /\ debugMode \in BOOLEAN
  /\ restoreFn = "null" /\ lastStep = NoStepYet /\ trace = <<>>
  /\ stage = "new"
  /\ gh \in GitHubStates
  /\ deployConfig \in [autoCleanup : BOOLEAN, hostname : BOOLEAN]
  /\ gitDeployer = FALSE /\ tempDir = "null" /\ effects = <<>>
  /\ error = "none" /\ inStep = NoStep

RunNext ==
  \/ Construct \/ Preflight \/ EnsureGitRepo \/ BeginBuild \/ Building \/ EndBuild
  \/ DeployToGitHub \/ EnableGitHubPages \/ AutoCleanup \/ Complete \/ Catch \/ Finally

RunSpec == RunInit /\ [][RunNext]_vars

----------------------------------------------------------------------------
(* Patch/restore claims *)

Last == log[Len(log)]

OpsAt(op) == { i \in 1..Len(log) : log[i].op = op }

\* index of the call made before call i, edits by others skipped; 0 if none
PrevCall(i) ==
  LET js == { j \in 1..(i - 1) : log[j].op # "edit" }
  IN  IF js = {} THEN 0 ELSE CHOOSE j \in js : \A k \in js : k <= j

\* the file system a restore that meets no error would leave
Restored == restoreOriginalConfig(fs, originalConfigs, 0, "ok").fs

SameFile(F, G, f) == (f \in DOMAIN F <=> f \in DOMAIN G) /\ (f \in DOMAIN F => F[f] = G[f])

\* C1: a configureBasePath on a fresh BuildConfigurer followed directly by
\* restoreOriginalConfig, neither meeting an I/O error, leaves the project
\* exactly as it was before the configure: every patched file has its old
\* text and no created file remains.
C1_RoundTrip ==
  (/\ Len(log) >= 2
   /\ Last.op = "restore" /\ ~Last.threw
   /\ log[Len(log) - 1].op = "configure" /\ ~log[Len(log) - 1].threw
   /\ log[Len(log) - 1].held = <<>>)
  => fs = log[Len(log) - 1].before

C1_Witness ==
  /\ Len(log) >= 2
  /\ Last.op = "restore" /\ ~Last.threw
  /\ log[Len(log) - 1].op = "configure" /\ ~log[Len(log) - 1].threw
  /\ log[Len(log) - 1].held = <<>>
  /\ Last.before # fs
  /\ DOMAIN Last.before # DOMAIN fs

\* C2: once buildProject has run the build command, whatever its outcome,
\* restoreOriginalConfig has been called exactly once, after the build, by
\* the time buildProject returns or throws; it is not called before the
\* build has ended.
C2_RestoreExactlyOnce ==
  /\ (pc \in {"returned", "threw", "verify"} /\ OpsAt("build") # {}) =>
       /\ Cardinality(OpsAt("restore")) = 1
       /\ \A b \in OpsAt("build") : \A r \in OpsAt("restore") : b < r
  /\ pc \in {"ready", "configured", "finally"} => OpsAt("restore") = {}

C2_Witness ==
  /\ pc = "threw"
  /\ \E b \in OpsAt("build") : log[b].threw
  /\ Cardinality(OpsAt("restore")) = 1

\* C3: when buildProject has ended, by returning or by throwing, the project
\* files are what they were when the run started.
C3_ProjectNeverLeftModified ==
  (pc \in {"returned", "threw"} /\ log # <<>>) => fs = log[1].before

\* C4: a configureBasePath that follows a successful configureBasePath with
\* no restore in between is rejected: it throws, changes no file and leaves
\* the PatchRecords as they were.
C4_SecondConfigureRejected ==
  (/\ Len(log) >= 2
   /\ Last.op = "configure" /\ Last.held # <<>>
   /\ log[Len(log) - 1].op = "configure" /\ ~log[Len(log) - 1].threw)
  => /\ Last.threw
     /\ fs = Last.before
     /\ originalConfigs = Last.held

\* C5: when a read or write throws during a configureBasePath on a fresh
\* BuildConfigurer, the call throws, and every PatchRecord it made is valid:
\* a restore returns each recorded file to its text before the call, or
\* removes it if it did not exist.
C5_PatchFailure ==
  (log # <<>> /\ Last.op = "configure" /\ Last.held = <<>>) =>
    /\ Last.ioFailed => Last.threw
    /\ Last.threw =>
         \A i \in 1..Len(originalConfigs) :
           SameFile(Restored, Last.before, originalConfigs[i].file)

C5_Witness ==
  /\ log # <<>> /\ Last.op = "configure" /\ Last.held = <<>>
  /\ Last.threw
  /\ originalConfigs # <<>>
  /\ fs # Last.before

\* C6: every PatchRecord held when restoreOriginalConfig is called gets its
\* restoration attempt in that call, also when restoring one of them throws.
C6_RestoreIsolation ==
  (log # <<>> /\ Last.op = "restore") => Last.attempted = Len(Last.held)

\* C7: a restoreOriginalConfig that completes leaves no PatchRecord, and a
\* restoreOriginalConfig called after a completed one, with nothing but edits
\* by others in between, throws nothing and changes no file.
C7_RestoreIdempotent ==
  (log # <<>> /\ Last.op = "restore") =>
    /\ ~Last.threw => originalConfigs = <<>>
    /\ (/\ PrevCall(Len(log)) # 0
        /\ log[PrevCall(Len(log))].op = "restore"
        /\ ~log[PrevCall(Len(log))].threw)
       => (~Last.threw /\ fs = Last.before)

C7_Witness ==
  /\ Len(log) >= 3
  /\ Last.op = "restore"
  /\ log[Len(log) - 1].op = "edit"
  /\ log[Len(log) - 2].op = "restore" /\ ~log[Len(log) - 2].threw
  /\ log[Len(log) - 2].held # <<>>
  /\ fs = Last.before

----------------------------------------------------------------------------
(* Detection claims *)

NextSignature  == \E f \in Range(NextConfigFiles) : f \in DOMAIN fs
ViteSignature  == (\E f \in Range(ViteDetectFiles) : f \in DOMAIN fs) \/ pkg.devVite
ReactSignature == pkg.reactScripts

ExpectedFramework ==
  IF NextSignature THEN "next"
  ELSE IF ViteSignature THEN "vite"
  ELSE IF ReactSignature THEN "react"
  ELSE "generic"

ExpectedProfile ==
  CASE ExpectedFramework = "next"  -> findNextConfig(fs, unreadable)
    [] ExpectedFramework = "vite"  -> findViteConfig(fs, unreadable, pkg)
    [] ExpectedFramework = "react" -> findReactConfig(fs, unreadable, pkg)
    [] OTHER                       -> findGenericConfig(dirs, pkg)

\* C8: detection is first-match-wins in the order next > vite > react >
\* generic: whatever signals coexist, the profile returned is the one of the
\* highest-priority framework whose signature holds, and it is one profile
\* carrying exactly that framework tag.
C8_DetectionPriority ==
  pc = "ready" =>
    /\ buildConfig.framework = ExpectedFramework
    /\ buildConfig = ExpectedProfile
    /\ buildConfig.framework \in {"next", "vite", "react", "generic"}

C8_Witness ==
  /\ pc = "ready"
  /\ NextSignature /\ ViteSignature /\ ReactSignature /\ dirs # {}
  /\ buildConfig.framework = "next"

ExportMarkerFound ==
  /\ CanRead(fs, unreadable, buildConfig.configFile)
  /\ HasExportMarker(fs[buildConfig.configFile].entries)

\* C9 as stated: requiresExport of a next profile is true exactly when the
\* static-export marker was found in the config text.
C9_Original ==
  (pc = "ready" /\ buildConfig.framework = "next") =>
    (buildConfig.requiresExport <=> ExportMarkerFound)

\* C9 amended: requiresExport is true for every next profile, with or without
\* the static-export marker in the config text, and no other profile has the
\* field.
C9_RequiresExportConstant ==
  pc = "ready" =>
    IF buildConfig.framework = "next"
    THEN buildConfig.requiresExport = TRUE
    ELSE "requiresExport" \notin DOMAIN buildConfig

C9_Witness ==
  /\ pc = "ready"
  /\ buildConfig.framework = "next"
  /\ CanRead(fs, unreadable, buildConfig.configFile)
  /\ ~HasExportMarker(fs[buildConfig.configFile].entries)
  /\ buildConfig.requiresExport = TRUE

\* C10: the outputDir of every detected profile is a non-empty relative path
\* that does not leave the project root.
C10_OutputDirRelative ==
  pc = "ready" =>
    /\ buildConfig.outputDir # <<>>
    /\ ~IsAbsolute(buildConfig.outputDir)
    /\ ~EscapesRoot(buildConfig.outputDir)

----------------------------------------------------------------------------
(* Output directory claims *)

\* no entry of these keys carries a value the marker patterns capture
NoMarker(es, keys) == \A i \in 1..Len(es) : es[i].k \in keys => es[i].v = <<>>

AllReadable == unreadable = {}

DetectedNextFile == find(NextConfigFiles, fs)
DetectedViteFile == find(ViteDetectFiles, fs)

OnlyNextSignature    == NextSignature /\ ~ViteSignature /\ ~ReactSignature
OnlyViteSignature    == ~NextSignature /\ ViteSignature /\ ~ReactSignature
OnlyReactSignature   == ~NextSignature /\ ~ViteSignature /\ ReactSignature
NoSignature          == ~NextSignature /\ ~ViteSignature /\ ~ReactSignature

PlainNext ==
  /\ OnlyNextSignature /\ AllReadable
  /\ NoMarker(fs[DetectedNextFile].entries, {"distDir", "outDir"})
  /\ ~HasExportMarker(fs[DetectedNextFile].entries)

PlainVite ==
  /\ OnlyViteSignature /\ AllReadable
  /\ DetectedViteFile # Undefined =>
       NoMarker(fs[DetectedViteFile].entries, {"outDir", "build.outDir"})

PlainReact ==
  /\ OnlyReactSignature /\ AllReadable
  /\ NoMarker(pkg.build, {"BUILD_PATH"})
  /\ \A f \in Range(ReactEnvFiles) \cap DOMAIN fs : NoMarker(fs[f].entries, {"BUILD_PATH"})

PlainGeneric ==
  /\ NoSignature
  /\ \A d \in Range(commonDirs) : ~includes(pkg.build, d) /\ d \notin dirs

\* C11: a project that has only one framework's signature and no custom
\* directory marker is detected as that framework with its default output
\* directory: '.next' for next, 'dist' for vite, 'build' for react, and
\* 'dist' for generic with no script hint and no existing candidate directory.
C11_Defaults ==
  pc = "ready" =>
    /\ PlainNext    => buildConfig.framework = "next"    /\ buildConfig.outputDir = <<".next">>
    /\ PlainVite    => buildConfig.framework = "vite"    /\ buildConfig.outputDir = <<"dist">>
    /\ PlainReact   => buildConfig.framework = "react"   /\ buildConfig.outputDir = <<"build">>
    /\ PlainGeneric => buildConfig.framework = "generic" /\ buildConfig.outputDir = <<"dist">>

C11_Witness ==
  /\ pc = "ready"
  /\ PlainNext
  /\ fs[DetectedNextFile].entries # <<>>
  /\ dirs # {}
  /\ buildConfig.outputDir = <<".next">>

DefaultOutputDir(framework) ==
  CASE framework = "next"  -> <<".next">>
    [] framework = "vite"  -> <<"dist">>
    [] framework = "react" -> <<"build">>
    [] OTHER               -> <<"dist">>

EnvIndex(f) == CHOOSE i \in 1..Len(ReactEnvFiles) : ReactEnvFiles[i] = f

\* the read of the config file detection has chosen throws
NextReadFails == NextSignature /\ DetectedNextFile \in unreadable

ViteReadFails ==
  ~NextSignature /\ DetectedViteFile # Undefined /\ DetectedViteFile \in unreadable

\* the scan of the env files reaches one whose read throws
ReactReadFails ==
  /\ ~NextSignature /\ ~ViteSignature /\ ReactSignature
  /\ NoMarker(pkg.build, {"BUILD_PATH"})
  /\ \E f \in Range(ReactEnvFiles) \cap DOMAIN fs \cap unreadable :
       \A g \in Range(ReactEnvFiles) \cap DOMAIN fs :
         EnvIndex(g) < EnvIndex(f) =>
           g \notin unreadable /\ NoMarker(fs[g].entries, {"BUILD_PATH"})

\* C12: when the read of a framework's config file or env file fails,
\* detection still returns that framework's profile, and its outputDir is the
\* default the framework gets for a file without custom markers.
C12_SoftFailure ==
  pc = "ready" =>
    /\ NextReadFails  => /\ buildConfig.framework = "next"
                         /\ buildConfig.outputDir = DefaultOutputDir("next")
    /\ ViteReadFails  => /\ buildConfig.framework = "vite"
                         /\ buildConfig.outputDir = DefaultOutputDir("vite")
    /\ ReactReadFails => /\ buildConfig.framework = "react"
                         /\ buildConfig.outputDir = DefaultOutputDir("react")

----------------------------------------------------------------------------
(* Manifest claims *)

\* C13: the constructor throws only when package.json cannot be read or
\* parsed; then there is no profile and no configure, build or restore has
\* run; for every manifest that parses, detection returns a profile.
C13_HardFailure ==
  /\ pc = "failed" => /\ pkg = Unparsable
                      /\ buildConfig = NoProfile
                      /\ log = <<>>
                      /\ originalConfigs = <<>>
  /\ (pkg # Unparsable /\ pc # "start") =>
       /\ pc # "failed"
       /\ buildConfig.framework \in {"next", "vite", "react", "generic"}

----------------------------------------------------------------------------
(* NEXT output directory *)

Captures(es, k) == { i \in 1..Len(es) : es[i].k = k /\ es[i].v # <<>> }

\* the value of the first marker of key k in the text
FirstCapture(es, k) ==
  es[CHOOSE i \in Captures(es, k) : \A j \in Captures(es, k) : i <= j].v

\* C14: for a readable NEXT config text the output directory is the value of
\* the distDir marker if there is one, also when the static-export marker is
\* present; else, with the static-export marker, the value of the outDir
\* marker or 'out' if there is none; else '.next'.
C14_NextOutputOrder ==
  (pc = "ready" /\ buildConfig.framework = "next"
     /\ CanRead(fs, unreadable, buildConfig.configFile)) =>
    LET es == fs[buildConfig.configFile].entries
    IN  buildConfig.outputDir =
          IF Captures(es, "distDir") # {} THEN FirstCapture(es, "distDir")
          ELSE IF <<"export">> \in { es[i].v : i \in { j \in 1..Len(es) : es[j].k = "output" } }
               THEN (IF Captures(es, "outDir") # {} THEN FirstCapture(es, "outDir")
                     ELSE <<"out">>)
          ELSE <<".next">>

C14_Witness ==
  /\ pc = "ready" /\ buildConfig.framework = "next"
  /\ CanRead(fs, unreadable, buildConfig.configFile)
  /\ HasExportMarker(fs[buildConfig.configFile].entries)
  /\ Captures(fs[buildConfig.configFile].entries, "distDir") # {}
  /\ buildConfig.outputDir = <<"custom-out">>

----------------------------------------------------------------------------
(* Patched texts *)

\* the last call was a configureBasePath that returned, on a project of this
\* framework whose target file f existed
PatchedExisting(framework, f) ==
  /\ pc = "ready" /\ log # <<>>
  /\ buildConfig.framework = framework
  /\ Last.op = "configure" /\ ~Last.threw
  /\ f \in DOMAIN Last.before

Values(es, k) == { es[i].v : i \in { j \in 1..Len(es) : es[j].k = k } }

\* every entry of the old text whose key is not among keys is in the new text
Keeps(old, new, keys) ==
  \A i \in 1..Len(old.entries) :
    old.entries[i].k \notin keys => old.entries[i] \in Range(new.entries)

\* C15: after configureBasePath on a VITE project whose config file existed,
\* the file's configuration has the field base with the value basePath and
\* keeps every other entry of the original, whatever the export shape was.
C15_ViteBaseInjected ==
  \A f \in Range(ViteConfigFiles) :
    (PatchedExisting("vite", f) /\ f = find(ViteConfigFiles, Last.before)) =>
      /\ Values(fs[f].entries, "base") = {BasePathOf(repository)}
      /\ Keeps(Last.before[f], fs[f], {"base"})

DeploymentKeys == {"output", "basePath", "assetPrefix", "trailingSlash", "images.unoptimized"}

\* key k has value v in the object a text exports: its last assignment counts
Exports(es, k, v) ==
  LET at == { i \in 1..Len(es) : es[i].k = k }
  IN  at # {} /\ es[CHOOSE i \in at : \A j \in at : j <= i].v = v

\* C16: after configureBasePath on a NEXT project whose config file existed,
\* the written configuration has output 'export', basePath and assetPrefix
\* equal to basePath, trailingSlash true and images.unoptimized true, and
\* keeps every other key of the original, on every path of modifyNextConfig.
C16_NextFiveFields ==
  \A f \in Range(NextConfigFiles) :
    (PatchedExisting("next", f) /\ f = find(NextConfigFiles, Last.before)) =>
      /\ Exports(fs[f].entries, "output", <<"export">>)
      /\ Exports(fs[f].entries, "basePath", BasePathOf(repository))
      /\ Exports(fs[f].entries, "assetPrefix", BasePathOf(repository))
      /\ Exports(fs[f].entries, "trailingSlash", <<"true">>)
      /\ Exports(fs[f].entries, "images.unoptimized", <<"true">>)
      /\ Keeps(Last.before[f], fs[f], DeploymentKeys)

\* C17: after configureBasePath on a REACT_CRA project, .env.local has
\* exactly one PUBLIC_URL assignment, its value is basePath, and every other
\* line of the original .env.local is unchanged.
C17_ReactPublicUrl ==
  (pc = "ready" /\ log # <<>> /\ buildConfig.framework = "react"
     /\ Last.op = "configure" /\ ~Last.threw) =>
    LET new == fs[".env.local"].entries
    IN  /\ Cardinality({ i \in 1..Len(new) : new[i].k = "PUBLIC_URL" }) = 1
        /\ Values(new, "PUBLIC_URL") = {BasePathOf(repository)}
        /\ ".env.local" \in DOMAIN Last.before =>
             Keeps(Last.before[".env.local"], fs[".env.local"], {"PUBLIC_URL"})

----------------------------------------------------------------------------
(* Frame claims *)

\* C18: with a GENERIC profile, a configureBasePath or restoreOriginalConfig
\* call changes no file, no PatchRecord and no environment variable.
C18_GenericNoOp ==
  (pc = "ready" /\ log # <<>> /\ buildConfig.framework = "generic"
     /\ Last.op \in {"configure", "restore"}) =>
    /\ fs = Last.before
    /\ originalConfigs = Last.held
    /\ env = Last.env

----------------------------------------------------------------------------
(* GENERIC output directory *)

MentionedAt == { i \in 1..Len(commonDirs) : includes(pkg.build, commonDirs[i]) }
ExistingAt  == { i \in 1..Len(commonDirs) : commonDirs[i] \in dirs }

Least(S) == CHOOSE i \in S : \A j \in S : i <= j

\* C19: the output directory of a GENERIC profile is the first candidate the
\* build script mentions; if it mentions none, the first candidate that
\* exists on disk; if none exists, 'dist'.
C19_GenericInference ==
  (pc = "ready" /\ buildConfig.framework = "generic") =>
    buildConfig.outputDir =
      IF MentionedAt # {} THEN <<commonDirs[Least(MentionedAt)]>>
      ELSE IF ExistingAt # {} THEN <<commonDirs[Least(ExistingAt)]>>
      ELSE <<"dist">>

C19_Witness ==
  /\ pc = "ready" /\ buildConfig.framework = "generic"
  /\ MentionedAt # {} /\ ExistingAt # {}
  /\ Least(ExistingAt) < Least(MentionedAt)
  /\ buildConfig.outputDir = <<commonDirs[Least(MentionedAt)]>>

----------------------------------------------------------------------------
(* Created config files *)

\* no config file of the framework exists in F
NoTarget(framework, F) ==
  CASE framework = "next"  -> find(NextConfigFiles, F) = Undefined
    [] framework = "vite"  -> find(ViteConfigFiles, F) = Undefined
    [] framework = "react" -> ~existsSync(F, ".env.local")
    [] OTHER               -> FALSE

\* the file the framework's configure step is expected to create
CreatedTarget(framework, F) ==
  CASE framework = "next"  -> "next.config.js"
    [] framework = "vite"  -> IF "tsconfig.json" \in DOMAIN F THEN "vite.config.ts"
                              ELSE "vite.config.js"
    [] OTHER               -> ".env.local"

\* C23: a configureBasePath that completes on a project with no config file
\* of its framework creates exactly the framework's target file and records
\* it with the 'did not exist' sentinel (null); a restoreOriginalConfig that
\* meets no I/O error leaves no file recorded with the sentinel in the
\* project, and when such a file was already gone it completes without error
\* and clears the records.
C23_CreateThenDelete ==
  /\ (log # <<>> /\ Last.op = "configure" /\ ~Last.threw
        /\ NoTarget(buildConfig.framework, Last.before)) =>
       LET f == CreatedTarget(buildConfig.framework, Last.before)
       IN  /\ DOMAIN fs = DOMAIN Last.before \cup {f}
           /\ \A g \in DOMAIN Last.before : fs[g] = Last.before[g]
           /\ \E i \in 1..Len(originalConfigs) : originalConfigs[i] = Rec(f, Null)
           /\ Len(originalConfigs) = Len(Last.held) + (IF HasRecord(Last.held, f) THEN 0 ELSE 1)
  /\ (log # <<>> /\ Last.op = "restore" /\ ~Last.ioFailed) =>
       /\ \A i \in 1..Len(Last.held) :
            Last.held[i].orig = Null => Last.held[i].file \notin DOMAIN fs
       /\ (\E i \in 1..Len(Last.held) :
             Last.held[i].orig = Null /\ Last.held[i].file \notin DOMAIN Last.before)
          => ~Last.threw /\ originalConfigs = <<>>

\* a created file was removed by someone else before the restore
C23_Witness ==
  /\ Len(log) >= 3
  /\ Last.op = "restore" /\ ~Last.threw /\ originalConfigs = <<>>
  /\ \E i \in 1..Len(Last.held) :
       /\ Last.held[i].orig = Null
       /\ Last.held[i].file \notin DOMAIN Last.before
       /\ \E c \in OpsAt("configure") :
            /\ ~log[c].threw
            /\ NoTarget(buildConfig.framework, log[c].before)
            /\ Last.held[i].file = CreatedTarget(buildConfig.framework, log[c].before)

----------------------------------------------------------------------------
(* REACT_CRA output directory *)

ScriptOverride == Captures(pkg.build, "BUILD_PATH") # {}

\* the env files that exist and hold a BUILD_PATH override
EnvOverrides ==
  { f \in Range(ReactEnvFiles) \cap DOMAIN fs : Captures(fs[f].entries, "BUILD_PATH") # {} }

FirstEnvOverride == CHOOSE f \in EnvOverrides : \A g \in EnvOverrides : EnvIndex(f) <= EnvIndex(g)

\* the scan of the env files meets a file whose read fails before it meets
\* an override (the case of C12)
EnvScanFails ==
  \E f \in Range(ReactEnvFiles) \cap DOMAIN fs \cap unreadable :
    \A g \in EnvOverrides : EnvIndex(f) <= EnvIndex(g)

\* C24: for a REACT_CRA profile the output directory is the BUILD_PATH
\* override of the manifest's build script if it has one, whatever the env
\* files hold and whether or not they can be read; otherwise the override of
\* the first of .env, .env.local, .env.production, .env.production.local that
\* holds one; otherwise 'build'.
C24_ReactOutputOrder ==
  (pc = "ready" /\ buildConfig.framework = "react") =>
    /\ ScriptOverride => buildConfig.outputDir = FirstCapture(pkg.build, "BUILD_PATH")
    /\ (~ScriptOverride /\ ~EnvScanFails) =>
         buildConfig.outputDir =
           IF EnvOverrides # {} THEN FirstCapture(fs[FirstEnvOverride].entries, "BUILD_PATH")
           ELSE <<"build">>

\* two env files hold different overrides and the build script holds none
C24_Witness ==
  /\ pc = "ready" /\ buildConfig.framework = "react"
  /\ ~ScriptOverride /\ ~EnvScanFails
  /\ \E f, g \in EnvOverrides :
       /\ EnvIndex(f) < EnvIndex(g)
       /\ FirstCapture(fs[f].entries, "BUILD_PATH") # FirstCapture(fs[g].entries, "BUILD_PATH")
       /\ buildConfig.outputDir = FirstCapture(fs[f].entries, "BUILD_PATH")

\* the build script holds an override and so does an env file, which cannot
\* be read
C24_ScriptWitness ==
  /\ pc = "ready" /\ buildConfig.framework = "react"
  /\ ScriptOverride
  /\ EnvOverrides \cap unreadable # {}
  /\ buildConfig.outputDir = <<"custom-out">>

----------------------------------------------------------------------------
(* The patched file and the detected file *)

\* the files whose existence or text differs between F and G
ChangedFiles(F, G) == { f \in DOMAIN F \cup DOMAIN G : ~SameFile(F, G, f) }

\* C27: when detection reported a config file for a NEXT or VITE profile, a
\* configureBasePath that completes on the project as detection saw it
\* modifies that file and no other, records it, and creates no file.
C27_PatchesDetectedFile ==
  (/\ log # <<>> /\ Last.op = "configure" /\ ~Last.threw
   /\ OpsAt("edit") = {}
   /\ buildConfig.framework \in {"next", "vite"}
   /\ buildConfig.configFile # Undefined)
  => /\ ChangedFiles(Last.before, fs) \subseteq {buildConfig.configFile}
     /\ DOMAIN fs = DOMAIN Last.before
     /\ HasRecord(originalConfigs, buildConfig.configFile)

----------------------------------------------------------------------------
(* Cleanup claims *)

\* a name ending in -YYYYMMDD-HHMM-<6 hex digits>
DeploymentBranch(b) == timestampMatch(b) # ""

\* the time value of the timestamp embedded in a deployment branch name
EmbeddedTime(b) == getTime(branchDate(timestampMatch(b)))

Week == 7 * 24 * 60

\* the last call got as far as selecting branches
Selecting == lastCleanup.called /\ lastCleanup.config /\ lastCleanup.listed

\* C21: cleanupOldBranches selects exactly the deployment branches whose
\* embedded timestamp is more than one week before the time of the cleanup.
C21_OneWeekThreshold ==
  Selecting =>
    lastCleanup.selected =
      { b \in lastCleanup.seen :
          DeploymentBranch(b) /\ EmbeddedTime(b) < getTime(lastCleanup.at) - Week }

Consents == {"y", "Y", "yes", "Yes", "YES"}

\* C26: every DELETE request of cleanupOldBranches is for a listed branch
\* that the call selected, never for main or master and never for a name
\* that does not end in -YYYYMMDD-HHMM-<6 hex digits>; a call in manual mode
\* issues a request only after the user answered y or yes.
C26_DeletesOnlySelected ==
  lastCleanup.called =>
    /\ lastCleanup.requests \subseteq lastCleanup.selected
    /\ \A b \in lastCleanup.requests :
         /\ b \in lastCleanup.seen
         /\ b \notin {"main", "master"}
         /\ DeploymentBranch(b)
    /\ (~lastCleanup.autoMode /\ lastCleanup.requests # {}) => lastCleanup.answer \in Consents

\* a manual cleanup, confirmed, on a repository that also holds main, a name
\* with upper-case hex digits and a deployment branch that is not old enough
C26_Witness ==
  /\ lastCleanup.called /\ ~lastCleanup.autoMode
  /\ lastCleanup.answer = "YES"
  /\ lastCleanup.requests # {}
  /\ \E b \in lastCleanup.seen \ lastCleanup.requests : DeploymentBranch(b)
  /\ \E b \in lastCleanup.seen : ~DeploymentBranch(b)
  /\ branches # lastCleanup.seen

\* a manual cleanup that found old branches and was not confirmed
C26_DeclinedWitness ==
  /\ lastCleanup.called /\ ~lastCleanup.autoMode
  /\ lastCleanup.answer \in {"", "ok"}
  /\ lastCleanup.selected # {}
  /\ lastCleanup.requests = {}

----------------------------------------------------------------------------
(* ProgressUtil claims *)

\* the last call on the ProgressUtil was a step, not in debug mode, whose
\* function threw
StepJustThrew ==
  /\ ~debugMode
  /\ trace # <<>> /\ trace[Len(trace)] = "step throws"
  /\ lastStep.called /\ lastStep.fnThrew

\* C28: when the function passed to step throws E, not in debug mode, step
\* runs failStep, leaves no spinner interval, rethrows E itself and leaves
\* the console silenced or unsilenced as it found it.
C28_StepFailure ==
  StepJustThrew =>
    /\ lastStep.failed
    /\ ~interval
    /\ lastStep.error = "E"
    /\ console = lastStep.consoleBefore

\* C29: not in debug mode, after any sequence of silentConsole,
\* restoreConsole, step and returned-function calls, originalConsole is null
\* or holds the real console methods, never the silencing ones; and whenever
\* it is null, as after any restoreConsole, the real methods are installed.
C29_OriginalConsoleReal ==
  ~debugMode =>
    /\ originalConsole \in {"null", "real"}
    /\ originalConsole = "null" => console = "real"
    /\ originalConsole = "real" => console = "noop"

\* silenced twice, a step in between, then restored once
C29_Witness ==
  /\ ~debugMode
  /\ trace = <<"silentConsole", "step", "silentConsole", "restoreConsole">>
  /\ console = "real" /\ originalConsole = "null"

----------------------------------------------------------------------------
(* Deploy run claims *)

Took(name) == \E i \in DOMAIN effects : effects[i].step = name

Passed(name) == \E i \in DOMAIN effects : effects[i].step = name /\ ~effects[i].threw

Ended == stage \in {"returned", "exited"}

\* the GitHub CLI is missing, nobody is logged in, or the login is on github.com
Refused == ~gh.cli \/ gh.auth \in {"none", "github.com"}

\* C22: when the GitHub CLI is missing, the user is not authenticated or the
\* authenticated host is github.com, deploy() patches no config file, runs no
\* build, creates no temporary repository, pushes no branch, calls neither the
\* Pages API nor the cleanup, and goes straight to its end.
C22_EnterpriseOnly ==
  Refused =>
    /\ stage \in {"new", "finally", "returned"}
    /\ pc \in {"start", "ready"}
    /\ log = <<>>
    /\ ~outputMade
    /\ ~gitDeployer
    /\ tempDir = "null"
    /\ effects = <<>>
    /\ branchName \notin branches
    /\ lastCleanup = NoCleanup
    /\ lastStep = NoStepYet

C22_Witness == stage = "returned" /\ gh.cli /\ gh.auth = "github.com"

C22_NoCliWitness == stage = "returned" /\ ~gh.cli

\* C29, the part about deploy(): the console is not silenced when deploy()
\* ends, whether it returns or exits in the catch block.
DeployEndsUnsilenced == Ended => console = "real" /\ originalConsole = "null"

DeployEndsUnsilenced_Witness ==
  /\ stage = "exited" /\ ~debugMode /\ lastStep.called /\ lastStep.fnThrew

\* C30: once ensureGitRepo has created the temporary directory, it is gone
\* when the deploy run ends, unless cleanup() ran and its rmSync failed.
C30_TempDirRemoved == (Ended /\ tempDir = "exists") => stage = "returned"

\* position of a step in the order of a deploy run
StepRank(name) ==
  CASE name = "setup"     -> 1
    [] name = "configure" -> 2
    [] name = "build"     -> 3
    [] name = "restore"   -> 4
    [] name = "push"      -> 5
    [] name = "pages"     -> 6
    [] name = "cleanup"   -> 7

\* a step of the run: it threw, or it ended without doing its work
H(name, threw, failed) == [step |-> name, threw |-> threw, failed |-> failed]

OfEffect(e) == H(e.step, e.threw, e.threw \/ (e.step = "pages" /\ e.outcome # "configured"))

OfEvent(ev) == H(ev.op, ev.threw, ev.threw)

RECURSIVE HistoryOf(_, _)
HistoryOf(done, events) ==
  IF done = <<>> THEN [i \in DOMAIN events |-> OfEvent(events[i])]
  ELSE IF Head(done).step = "setup"
  THEN <<OfEffect(Head(done))>> \o HistoryOf(Tail(done), events)
  ELSE IF Head(done).step = "build"
  THEN [i \in DOMAIN events |-> OfEvent(events[i])]
       \o [i \in DOMAIN Tail(done) |-> OfEffect(Tail(done)[i])]
  ELSE [i \in DOMAIN done |-> OfEffect(done[i])]

\* the steps of the run so far: buildProject's configure, build and restore
\* stand where the build step of deploy() stands
History == HistoryOf(effects, log)

Pushed == \E i \in DOMAIN effects : effects[i].step = "push" /\ effects[i].outcome = "ok"

InOrder ==
  /\ \A i, j \in DOMAIN History : i < j => StepRank(History[i].step) < StepRank(History[j].step)
  /\ log # <<>> => Passed("setup")
  /\ Took("build") => pc \in {"returned", "threw"} /\ stage # "building"
  /\ (Took("push") \/ Took("pages") \/ Took("cleanup")) => Took("build")

PushAfterBuild ==
  Took("push") =>
    /\ Passed("build") /\ pc = "returned"
    /\ \E i \in DOMAIN log : log[i].op = "build" /\ ~log[i].threw
    /\ \E i \in DOMAIN log : log[i].op = "restore" /\ ~log[i].threw
    /\ fs = log[1].before /\ originalConfigs = <<>>
    /\ OutputExists(dirs, outputMade, buildConfig.outputDir)

PagesAfterPush == Took("pages") => Pushed

CleanupAfterDeployment ==
  Took("cleanup") => Pushed /\ Took("pages") /\ deployConfig.autoCleanup /\ lastCleanup.called

C25_FailedBuildWitness ==
  /\ stage = "exited" /\ Len(History) = 4
  /\ History[3].threw /\ History[4].step = "restore"

C25_FailedPushWitness ==
  /\ stage = "exited" /\ Len(History) = 5 /\ History[5].threw

====
